---- MODULE Spec2Model ----
(***************************************************************************)
(* Model of the ECAD-api layout recognition and extraction engine          *)
(* (app/features/extractor/ext_service.py, app/utils/pdf_parser.py,        *)
(* app/utils/formatters.py).                                               *)
(*                                                                         *)
(* Lines and texts are strings; regular expressions of the source are      *)
(* written as operators over the characters of those strings.              *)
(***************************************************************************)
EXTENDS Integers, Sequences, FiniteSets, TLC

VARIABLES
    pc,                    \* position of the call being modelled
    layout,                \* result of identify_layout
    tipo,                  \* layout tag the extractor runs under
    original_filename,     \* filename handed to the extractor
    header_info,           \* extract_header_info(first page): titular, periodo_distribuicao
    doc,                   \* pdf.pages: sequence of pages, each the sequence of its lines' names
    page_idx,              \* index of the page being read (1-based, 0 before the first)
    line_idx,              \* index of the next line of that page (1-based)
    skip_header,           \* padrao: header-band skip flag
    current_obra_codigo,   \* current work code (conexo: current_gravacao_codigo)
    current_obra_titulo,   \* current work title (conexo: current_gravacao_titulo)
    current_isrc,          \* pending ISRC (autoral: current_iswc)
    current_situacao,      \* conexo: current status
    current_complemento,   \* conexo: current title complement
    rows,                  \* rows appended so far
    result,                \* the DataFrame returned by the extractor
    trace,                 \* history: for each line read, where it was and which branch took it
    error,                 \* the exception a call raised (NULL: none)
    layout_signatures,     \* the module-level list LAYOUT_SIGNATURES (names of its elements)
    master_schema_columns, \* the module-level list MASTER_SCHEMA_COLUMNS of formatters
    job_id,                \* process_extraction: the job of the running task
    jobs,                  \* the rows of table job_status, by job id
    files,                 \* the files of EXPORT_DIR: name and content
    suspended,             \* the local state of the tasks that are not scheduled
    argument,              \* the argument of a call of one of the helper functions
    returned               \* what that call returned

vars == << pc, layout, tipo, original_filename, header_info, doc,
           page_idx, line_idx, skip_header, current_obra_codigo,
           current_obra_titulo, current_isrc, current_situacao,
           current_complemento, rows, result, trace, error,
           layout_signatures, master_schema_columns, job_id, jobs, files,
           suspended, argument, returned >>

\* the module-level lists
globals == << layout_signatures, master_schema_columns >>

\* the state of the job controller
controller == << job_id, jobs, files, suspended >>

\* the call of a helper function of app/utils
utility == << argument, returned >>

NULL == "<None>"

(***************************************************************************)
(* Characters and strings                                                  *)
(***************************************************************************)
Digit == {"0", "1", "2", "3", "4", "5", "6", "7", "8", "9"}

UpperAZ == {"A", "B", "C", "D", "E", "F", "G", "H", "I", "J", "K", "L", "M",
            "N", "O", "P", "Q", "R", "S", "T", "U", "V", "W", "X", "Y", "Z"}

LowerAZ == {"a", "b", "c", "d", "e", "f", "g", "h", "i", "j", "k", "l", "m",
            "n", "o", "p", "q", "r", "s", "t", "u", "v", "w", "x", "y", "z"}

\* accented letters that occur in the documents
UpperAcc == {"Á", "É", "Í", "Ó", "Ú", "Â", "Ê", "Ô", "Ã", "Õ", "Ç"}
LowerAcc == {"á", "é", "í", "ó", "ú", "â", "ê", "ô", "ã", "õ", "ç"}

\* \s
WS == {" ", "\t"}

\* \w  (str patterns: Unicode letters, digits, underscore)
WordCh == UpperAZ \cup LowerAZ \cup UpperAcc \cup LowerAcc \cup Digit \cup {"_"}

Ch(s, i) == SubSeq(s, i, i)

\* s[i:] (1-based i)
From(s, i) == SubSeq(s, i, Len(s))

AllIn(s, C) == \A i \in 1..Len(s) : Ch(s, i) \in C

\* kw in s
Contains(s, kw) ==
    \E i \in 1..(Len(s) - Len(kw) + 1) : SubSeq(s, i, i + Len(kw) - 1) = kw

StartsWith(s, p) == Len(s) >= Len(p) /\ SubSeq(s, 1, Len(p)) = p

Min(S) == CHOOSE m \in S : \A n \in S : m <= n
Max(S) == CHOOSE m \in S : \A n \in S : m >= n

\* first position >= i whose character is outside C (Len(s) + 1 when none):
\* where a greedy C* started at i stops
RECURSIVE SkipClass(_, _, _)
SkipClass(s, i, C) ==
    IF i > Len(s) THEN Len(s) + 1
    ELSE IF Ch(s, i) \notin C THEN i ELSE SkipClass(s, i + 1, C)

\* last position <= i whose character is outside C (0 when none)
RECURSIVE SkipClassBack(_, _, _)
SkipClassBack(s, i, C) ==
    IF i < 1 THEN 0
    ELSE IF Ch(s, i) \notin C THEN i ELSE SkipClassBack(s, i - 1, C)

\* str.strip()
Strip(s) == SubSeq(s, SkipClass(s, 1, WS), SkipClassBack(s, Len(s), WS))

UpperOf(c) ==
    CASE c = "a" -> "A" [] c = "b" -> "B" [] c = "c" -> "C" [] c = "d" -> "D"
      [] c = "e" -> "E" [] c = "f" -> "F" [] c = "g" -> "G" [] c = "h" -> "H"
      [] c = "i" -> "I" [] c = "j" -> "J" [] c = "k" -> "K" [] c = "l" -> "L"
      [] c = "m" -> "M" [] c = "n" -> "N" [] c = "o" -> "O" [] c = "p" -> "P"
      [] c = "q" -> "Q" [] c = "r" -> "R" [] c = "s" -> "S" [] c = "t" -> "T"
      [] c = "u" -> "U" [] c = "v" -> "V" [] c = "w" -> "W" [] c = "x" -> "X"
      [] c = "y" -> "Y" [] c = "z" -> "Z"
      [] c = "á" -> "Á" [] c = "é" -> "É" [] c = "í" -> "Í" [] c = "ó" -> "Ó"
      [] c = "ú" -> "Ú" [] c = "â" -> "Â" [] c = "ê" -> "Ê" [] c = "ô" -> "Ô"
      [] c = "ã" -> "Ã" [] c = "õ" -> "Õ" [] c = "ç" -> "Ç"
      [] OTHER -> c

\* str.upper(), one half of the string after the other
RECURSIVE Upper(_)
Upper(s) ==
    IF s = "" THEN ""
    ELSE IF Len(s) = 1 THEN UpperOf(s)
    ELSE Upper(SubSeq(s, 1, Len(s) \div 2)) \o Upper(From(s, Len(s) \div 2 + 1))

(***************************************************************************)
(* 1. Layout signatures and identify_layout                                *)
(***************************************************************************)
LAYOUT_SIGNATURES == <<
    [name |-> "RELATORIO_ANALITICO_AUTORAL",
     keywords |-> <<"RELATÓRIO ANALÍTICO DE TITULAR AUTORAL", "SUAS OBRAS">>,
     priority |-> 100],
    [name |-> "RELATORIO_ANALITICO_CONEXO",
     keywords |-> <<"RELATÓRIO ANALÍTICO DE TITULAR CONEXO", "SUAS GRAVAÇÕES">>,
     priority |-> 100],
    [name |-> "DEMONSTRATIVO_SERVICOS_DIGITAIS",
     keywords |-> <<"DEMONSTRATIVO DO TITULAR DE SERVIÇOS", "DIGITAIS">>,
     priority |-> 90],
    [name |-> "DEMONSTRATIVO_ANTECIPACAO_PRESCRITOS",
     keywords |-> <<"DEMONSTRATIVO DO TITULAR", "ANTECIPAÇÃO DE PRESCRITOS">>,
     priority |-> 80],
    [name |-> "DISTRIBUICAO_PRESCRITIVEIS",
     keywords |-> <<"DEMONSTRATIVO DO TITULAR", "DISTRIBUIÇÃO DE PRESCRITÍVEIS">>,
     priority |-> 70],
    [name |-> "DEMONSTRATIVO_TITULAR",
     keywords |-> <<"DEMONSTRATIVO DO TITULAR", "EXECUÇÃO PÚBLICA">>,
     priority |-> 10] >>

\* insertion of x into a list sorted by descending priority, after every
\* element whose priority is not lower (stable)
RECURSIVE InsertByPriorityAscending(_, _)
InsertByPriorityAscending(sorted, x) ==
    IF sorted = << >> THEN << x >>
    ELSE IF Head(sorted).priority <= x.priority
         THEN << Head(sorted) >> \o InsertByPriorityAscending(Tail(sorted), x)
         ELSE << x >> \o sorted

RECURSIVE InsertByPriority(_, _)
InsertByPriority(sorted, x) ==
    IF sorted = << >> THEN << x >>
    ELSE IF Head(sorted).priority >= x.priority
         THEN << Head(sorted) >> \o InsertByPriority(Tail(sorted), x)
         ELSE << x >> \o sorted

\* sorted(sigs, key=lambda s: s.priority, reverse=True)
RECURSIVE SortedByPriority(_)
SortedByPriority(sigs) ==
    IF sigs = << >> THEN << >>
    ELSE InsertByPriority(SortedByPriority(SubSeq(sigs, 1, Len(sigs) - 1)),
                          sigs[Len(sigs)])

\* the signature object of a name, and the names of a list of signatures
\* (the module's list is held as the names of its elements, in order)
SignatureNamed(name) ==
    LAYOUT_SIGNATURES[CHOOSE i \in 1..Len(LAYOUT_SIGNATURES) :
                          LAYOUT_SIGNATURES[i].name = name]

SignatureNames(sigs) == [i \in 1..Len(sigs) |-> sigs[i].name]

sorted_signatures ==
    SortedByPriority([i \in 1..Len(layout_signatures) |->
                         SignatureNamed(layout_signatures[i])])

\* sorted(sigs, key=lambda s: s.priority)
RECURSIVE SortedByPriorityAscending(_)
SortedByPriorityAscending(sigs) ==
    IF sigs = << >> THEN << >>
    ELSE InsertByPriorityAscending(
             SortedByPriorityAscending(SubSeq(sigs, 1, Len(sigs) - 1)),
             sigs[Len(sigs)])

\* LAYOUT_SIGNATURES.sort(key=lambda s: s.priority): the list sorted in place
signatures_sorted_in_place(names) ==
    SignatureNames(SortedByPriorityAscending(
        [i \in 1..Len(names) |-> SignatureNamed(names[i])]))

\* the module's list after "sorted(LAYOUT_SIGNATURES, ...)": sorted builds a
\* new list and the loop only reads it
signatures_after_identify(sigs) == sigs

\* any(kw.upper() in text_upper for kw in sig.keywords)
any_found(sig, text_upper) ==
    \E k \in 1..Len(sig.keywords) : Contains(text_upper, Upper(sig.keywords[k]))

\* all(kw.upper() in text_upper for kw in sig.keywords)
all_found(sig, text_upper) ==
    \A k \in 1..Len(sig.keywords) : Contains(text_upper, Upper(sig.keywords[k]))

identify_layout(text) ==
    IF text = "" THEN NULL
    ELSE LET text_upper == Upper(text)
             hits == {i \in 1..Len(sorted_signatures) :
                         all_found(sorted_signatures[i], text_upper)}
         IN  IF hits = {} THEN NULL ELSE sorted_signatures[Min(hits)].name

(***************************************************************************)
(* Regular-expression building blocks                                      *)
(***************************************************************************)
AmtCh == Digit \cup {".", ","}            \* [\d.,]
AmtNegCh == Digit \cup {".", ",", "-"}    \* [\d.,\-]
RubCh == UpperAZ \cup Digit \cup {"-", "/"}   \* [A-Z0-9\-/]
CodeCh == WordCh \cup {"-"}               \* [\w-]

\* the literal p occurs in s at position i
LitAt(s, i, p) == i >= 1 /\ i + Len(p) - 1 <= Len(s) /\ SubSeq(s, i, i + Len(p) - 1) = p

\* whitespace-separated tokens of s, as <<first, last>> character positions
Tokens(s) ==
    LET starts == {i \in 1..Len(s) :
                      Ch(s, i) \notin WS /\ (i = 1 \/ Ch(s, i - 1) \in WS)}
        ends == {i \in 1..Len(s) :
                    Ch(s, i) \notin WS /\ (i = Len(s) \/ Ch(s, i + 1) \in WS)}
        nth(S, k) == CHOOSE x \in S : Cardinality({y \in S : y < x}) = k - 1
    IN  [k \in 1..Cardinality(starts) |-> << nth(starts, k), nth(ends, k) >>]

Tok(s, T, k) == SubSeq(s, T[k][1], T[k][2])
Span(s, T, i, j) == SubSeq(s, T[i][1], T[j][2])

\* str.split()
RECURSIVE Words(_, _, _)
Words(s, T, k) == IF k > Len(T) THEN << >> ELSE << Tok(s, T, k) >> \o Words(s, T, k + 1)

split(s) == Words(s, Tokens(s), 1)

RECURSIVE JoinSp(_)
JoinSp(ws) ==
    IF ws = << >> THEN ""
    ELSE IF Len(ws) = 1 THEN ws[1] ELSE ws[1] \o " " \o JoinSp(Tail(ws))

\* clean_text without the substitution: text.strip(), None when nothing is left
clean_text_strip_only(text) ==
    IF text = NULL \/ text = "" THEN NULL
    ELSE IF Strip(text) = "" THEN NULL ELSE Strip(text)

\* clean_text: re.sub(r"\s+", " ", text).strip(), None when nothing is left
clean_text(text) ==
    IF text = NULL \/ text = "" THEN NULL
    ELSE LET t == JoinSp(split(text)) IN IF t = "" THEN NULL ELSE t

IsDigits(t) == t # "" /\ AllIn(t, Digit)
IsD5(t) == Len(t) >= 5 /\ AllIn(t, Digit)                \* \d{5,}
IsAmtNeg(t) == t # "" /\ AllIn(t, AmtNegCh)              \* [\d.,\-]+
IsUp1(t) == Len(t) = 1 /\ t \in UpperAZ                  \* [A-Z]
IsUp2(t) == Len(t) = 2 /\ AllIn(t, UpperAZ)              \* [A-Z]{2}
IsUp2Plus(t) == Len(t) >= 2 /\ AllIn(t, UpperAZ)         \* [A-Z]{2,}
IsRubExt(t) == t # "" /\ AllIn(t, RubCh)                 \* [A-Z0-9\-/]+
StartsUp2(t) == Len(t) >= 2 /\ Ch(t, 1) \in UpperAZ /\ Ch(t, 2) \in UpperAZ
\* \d{2}/\d{4}
IsPeriod(t) ==
    /\ Len(t) = 7
    /\ AllIn(SubSeq(t, 1, 2), Digit) /\ Ch(t, 3) = "/" /\ AllIn(SubSeq(t, 4, 7), Digit)

\* [\d.,]+\s*--- matched at position i of s
AmountDashAt(s, i) ==
    LET j == SkipClass(s, i, AmtCh)
        k == SkipClass(s, j, WS)
    IN  j > i /\ LitAt(s, k, "---")

NoMatch == [ok |-> FALSE]

(***************************************************************************)
(* 2. Patterns of _extract_demonstrativo_padrao                            *)
(*    (operators take the stripped line, as the code passes it)            *)
(***************************************************************************)

\* re_obra_header = ^(\d{5,})\s+(.+?)(?:\s+[\d.,]+\s*---|\s*$)
\* the lazy title stops before the first "amount ---", or else runs to the end
re_obra_header_first_branch_only(line) ==
    LET T == Tokens(line)
        n == Len(T)
    IN  IF n < 2 \/ T[1][1] # 1 \/ ~IsD5(Tok(line, T, 1)) THEN NoMatch
        ELSE LET ks == {k \in 2..(n - 1) : AmountDashAt(line, T[k + 1][1])}
             IN  IF ks = {} THEN NoMatch
                 ELSE [ok |-> TRUE, g1 |-> Tok(line, T, 1),
                       g2 |-> Span(line, T, 2, Min(ks))]

re_obra_header(line) ==
    LET T == Tokens(line)
        n == Len(T)
    IN  IF n < 2 \/ T[1][1] # 1 \/ ~IsD5(Tok(line, T, 1)) THEN NoMatch
        ELSE LET ks == {k \in 2..(n - 1) : AmountDashAt(line, T[k + 1][1])}
                 k == IF ks = {} THEN n ELSE Min(ks)
             IN  [ok |-> TRUE, g1 |-> Tok(line, T, 1), g2 |-> Span(line, T, 2, k)]

\* [\d.,]+\s*%?\s*[\d.,]*\s*--- matched at position i of s
TituloTailAt(s, i) ==
    LET a == SkipClass(s, i, AmtCh)
        b == SkipClass(s, a, WS)
        c == IF LitAt(s, b, "%") THEN b + 1 ELSE b
        d == SkipClass(s, c, WS)
        e == SkipClass(s, d, AmtCh)
        f == SkipClass(s, e, WS)
    IN  a > i /\ LitAt(s, f, "---")

\* re.sub(r"\s+[\d.,]+\s*%?\s*[\d.,]*\s*---.*$", "", titulo_raw)
titulo_clean(titulo_raw) ==
    LET T == Tokens(titulo_raw)
        js == {j \in 2..Len(T) : TituloTailAt(titulo_raw, T[j][1])}
    IN  IF js = {} THEN titulo_raw ELSE SubSeq(titulo_raw, 1, T[Min(js) - 1][2])

\* re_obra_header_simple = ^(\d{5,})\s+(.+)
re_obra_header_simple(line) ==
    LET T == Tokens(line)
    IN  IF Len(T) < 2 \/ T[1][1] # 1 \/ ~IsD5(Tok(line, T, 1)) THEN NoMatch
        ELSE [ok |-> TRUE, g1 |-> Tok(line, T, 1), g2 |-> From(line, T[2][1])]

\* re.search(r"AP-|SPOTIFY|TIKTOK|YOUTUBE|DEEZER", candidate_rest)
has_data_marker(rest) ==
    \E m \in {"AP-", "SPOTIFY", "TIKTOK", "YOUTUBE", "DEEZER"} : Contains(rest, m)

\* re.match(r"^(.+?)\s+([\d.,]+)\s*---\s*(.*)", candidate_rest)
title_match(rest) ==
    LET T == Tokens(rest)
        ks == {k \in 1..(Len(T) - 1) : AmountDashAt(rest, T[k + 1][1])}
    IN  IF rest = "" \/ ks = {} THEN NoMatch
        ELSE [ok |-> TRUE, g1 |-> SubSeq(rest, 1, T[Min(ks)][2])]

\* re.match(r"^(\d+)\s+%\s+([\d.,]+)\s*---", candidate_rest)
perc_match(rest) ==
    LET T == Tokens(rest)
    IN  /\ Len(T) >= 3
        /\ T[1][1] = 1
        /\ IsDigits(Tok(rest, T, 1))
        /\ Tok(rest, T, 2) = "%"
        /\ AmountDashAt(rest, T[3][1])

\* (\d{2}/\d{4}(?:\s+A\s+\d{2}/\d{4})?)\s+ over tokens r .. r+len-1
PeriodAt(s, T, r, len) ==
    /\ r >= 1 /\ r + len - 1 < Len(T)
    /\ IsPeriod(Tok(s, T, r))
    /\ len = 3 => (Tok(s, T, r + 1) = "A" /\ IsPeriod(Tok(s, T, r + 2)))

\* ([\d.,\-]+)\s+([\d.,\-]+)\s+([\d.,\-]+)\s+(---)\s+ over tokens r .. r+3
ValuesAt(s, T, r) ==
    /\ r + 3 < Len(T)
    /\ IsAmtNeg(Tok(s, T, r)) /\ IsAmtNeg(Tok(s, T, r + 1)) /\ IsAmtNeg(Tok(s, T, r + 2))
    /\ Tok(s, T, r + 3) = "---"

\* ([A-Z]{2})\s*([^\s]+)?\s*([A-Z]{2})?$ with the two letters at the start of token c
TailAt(s, T, c) ==
    LET m == Len(T) - c
    IN  /\ StartsUp2(Tok(s, T, c))
        /\ IF Len(Tok(s, T, c)) > 2
           THEN m = 0 \/ (m = 1 /\ IsUp2(Tok(s, T, c + 1)))
           ELSE m <= 1 \/ (m = 2 /\ IsUp2(Tok(s, T, c + 2)))

\* (.+?)\s+([A-Z])\s+([A-Z]{2})... : ends b of the lazy execucoes group starting at token a
ExecEnds(s, T, a) ==
    {b \in a..(Len(T) - 2) : IsUp1(Tok(s, T, b + 1)) /\ TailAt(s, T, b + 2)}

\* re_data_line: artista, rubrica, periodo, three values, ---, execucoes,
\* categoria, caracteristica, optional OR.E/PESO, optional TP. EXEC, end of line.
\* Laziness of groups 1, 2 and 8 and greediness of the period decide the split.
re_data_line(line) ==
    LET Valid(T, p, q, len) ==
            /\ IsUp2Plus(Tok(line, T, p + 1))
            /\ \A j \in (p + 2)..q : IsRubExt(Tok(line, T, j))
            /\ PeriodAt(line, T, q + 1, len)
            /\ ValuesAt(line, T, q + 1 + len)
            /\ ExecEnds(line, T, q + 5 + len) # {}
        matched(T, p, q, len, v, b, car, g11, g12) ==
            [ok |-> TRUE,
             g1 |-> SubSeq(line, 1, T[p][2]),
             g2 |-> Span(line, T, p + 1, q),
             g3 |-> Span(line, T, q + 1, q + len),
             g4 |-> Tok(line, T, v), g5 |-> Tok(line, T, v + 1),
             g6 |-> Tok(line, T, v + 2), g7 |-> Tok(line, T, v + 3),
             g8 |-> Span(line, T, v + 4, b),
             g9 |-> Tok(line, T, b + 1), g10 |-> SubSeq(car, 1, 2),
             g11 |-> g11,
             lastindex |-> IF g12 # NULL THEN 12 ELSE IF g11 # NULL THEN 11 ELSE 10]
        tailed(T, n, p, q, len, v, b, car) ==
            matched(T, p, q, len, v, b, car,
                    IF Len(car) > 2 THEN From(car, 3)
                    ELSE IF b + 2 < n THEN Tok(line, T, b + 3) ELSE NULL,
                    IF Len(car) > 2
                    THEN (IF b + 2 < n THEN Tok(line, T, b + 3) ELSE NULL)
                    ELSE (IF b + 3 < n THEN Tok(line, T, b + 4) ELSE NULL))
        ended(T, n, p, q, len, v, b) ==
            tailed(T, n, p, q, len, v, b, Tok(line, T, b + 2))
        valued(T, n, p, q, len, v) ==
            ended(T, n, p, q, len, v, Min(ExecEnds(line, T, v + 4)))
        measured(T, n, p, q, len) == valued(T, n, p, q, len, q + 1 + len)
        rubric(T, n, cands, p, q) ==
            measured(T, n, p, q,
                     Max({c[3] : c \in {d \in cands : d[1] = p /\ d[2] = q}}))
        named(T, n, cands, p) ==
            rubric(T, n, cands, p, Min({c[2] : c \in {d \in cands : d[1] = p}}))
        decided(T, n, cands) ==
            IF n = 0 \/ T[1][1] # 1 \/ cands = {} THEN NoMatch
            ELSE named(T, n, cands, Min({c[1] : c \in cands}))
        periods(T, n, per) ==
            decided(T, n, {c \in (1..n) \X (1..n) \X {1, 3} :
                              /\ c[1] < c[2]
                              /\ c[2] + 1 \in per
                              /\ Valid(T, c[1], c[2], c[3])})
        tested(T, n) == periods(T, n, {r \in 3..n : IsPeriod(Tok(line, T, r))})
        tokenised(T) == tested(T, Len(T))
    IN  tokenised(Tokens(line))

DigitalPlatforms ==
    {"SPOTIFY", "TIKTOK", "YOUTUBE", "DEEZER", "APPLE MUSIC", "AMAZON", "META",
     "KWAI", "CLARO MUSICA", "TIM MUSIC", "NAPSTER", "TIDAL", "FACEBOOK",
     "INSTAGRAM", "GOOGLE", "RESSO", "PALCO MP3", "GLOBO"}

\* re_data_line_digital: artista, platform name (anything may follow it up to
\* the period), periodo, three values, ---, execucoes, categoria,
\* caracteristica; not anchored at the end of the line.
re_data_line_digital(line) ==
    LET PlatAt(i) == {pl \in DigitalPlatforms : LitAt(line, i, pl)}
        \* maximal run of [\d.,\-]+ tokens from a
        RunEnd(T, n, a) == Max({b \in (a - 1)..n :
                                   \A j \in a..b : IsAmtNeg(Tok(line, T, j))})
        Ended(T, n, r, len, b) ==
            /\ b >= r + len + 4
            /\ b + 2 <= n
            /\ IsUp1(Tok(line, T, b + 1))
            /\ StartsUp2(Tok(line, T, b + 2))
        Valid(T, n, p, r, len) ==
            /\ PlatAt(T[p + 1][1]) # {}
            /\ \A pl \in PlatAt(T[p + 1][1]) : T[r][1] > T[p + 1][1] + Len(pl)
            /\ PeriodAt(line, T, r, len)
            /\ ValuesAt(line, T, r + len)
            /\ Ended(T, n, r, len, RunEnd(T, n, r + len + 4))
        matched(T, p, r, len, v, b) ==
            [ok |-> TRUE,
             g1 |-> SubSeq(line, 1, T[p][2]),
             g2 |-> CHOOSE pl \in PlatAt(T[p + 1][1]) : TRUE,
             g3 |-> Span(line, T, r, r + len - 1),
             g4 |-> Tok(line, T, v), g5 |-> Tok(line, T, v + 1),
             g6 |-> Tok(line, T, v + 2), g7 |-> Tok(line, T, v + 3),
             g8 |-> Span(line, T, v + 4, b),
             g9 |-> Tok(line, T, b + 1),
             g10 |-> SubSeq(Tok(line, T, b + 2), 1, 2),
             g11 |-> NULL,
             lastindex |-> 10]
        valued(T, n, p, r, len, v) == matched(T, p, r, len, v, RunEnd(T, n, v + 4))
        measured(T, n, p, r, len) == valued(T, n, p, r, len, r + len)
        dated(T, n, cands, p, r) ==
            measured(T, n, p, r,
                     Max({c[3] : c \in {d \in cands : d[1] = p /\ d[2] = r}}))
        named(T, n, cands, p) ==
            dated(T, n, cands, p, Min({c[2] : c \in {d \in cands : d[1] = p}}))
        decided(T, n, cands) ==
            IF n = 0 \/ T[1][1] # 1 \/ cands = {} THEN NoMatch
            ELSE named(T, n, cands, Min({c[1] : c \in cands}))
        periods(T, n, per) ==
            decided(T, n, {c \in (1..n) \X per \X {1, 3} :
                              c[1] < c[2] /\ Valid(T, n, c[1], c[2], c[3])})
        tested(T, n) == periods(T, n, {r \in 3..n : IsPeriod(Tok(line, T, r))})
        tokenised(T) == tested(T, Len(T))
    IN  tokenised(Tokens(line))

(***************************************************************************)
(* ISRC detection (app/utils/pdf_parser.py)                                *)
(***************************************************************************)

\* ISRC\s+([A-Z]{2}[\w-]+) matched at position i: 0, or the position after the match
IsrcLabelEnd(s, i) ==
    LET j == SkipClass(s, i + 4, WS)
        k == SkipClass(s, j + 2, CodeCh)
    IN  IF /\ LitAt(s, i, "ISRC")
           /\ j > i + 4
           /\ j + 2 <= Len(s)
           /\ Ch(s, j) \in UpperAZ /\ Ch(s, j + 1) \in UpperAZ
           /\ k > j + 2
        THEN k ELSE 0

\* _RE_ISRC_LABEL.search(line): position of the leftmost match, 0 when none
IsrcLabelPos(s) ==
    LET hits == {i \in 1..Len(s) : IsrcLabelEnd(s, i) > 0}
    IN  IF hits = {} THEN 0 ELSE Min(hits)

\* \b([A-Z]{2}-?[\w]{3}-?\d{2}-?\d{5})\b matched at position i: 0, or the
\* position after the match
IsrcFullEnd(s, i) ==
    LET a == i + 2
        b == IF LitAt(s, a, "-") THEN a + 1 ELSE a
        c == b + 3
        d == IF LitAt(s, c, "-") THEN c + 1 ELSE c
        e == d + 2
        f == IF LitAt(s, e, "-") THEN e + 1 ELSE e
        g == f + 5
    IN  IF /\ g - 1 <= Len(s)
           /\ (i = 1 \/ Ch(s, i - 1) \notin WordCh)
           /\ AllIn(SubSeq(s, i, a - 1), UpperAZ)
           /\ AllIn(SubSeq(s, b, c - 1), WordCh)
           /\ AllIn(SubSeq(s, d, e - 1), Digit)
           /\ AllIn(SubSeq(s, f, g - 1), Digit)
           /\ (g > Len(s) \/ Ch(s, g) \notin WordCh)
        THEN g ELSE 0

\* extract_isrc_from_line with the two priorities exchanged
extract_isrc_from_line_bare_first(line) ==
    IF line = "" THEN NULL
    ELSE LET lp == IsrcLabelPos(line)
             fhits == {i \in 1..Len(line) : IsrcFullEnd(line, i) > 0}
         IN  IF fhits # {}
             THEN SubSeq(line, Min(fhits), IsrcFullEnd(line, Min(fhits)) - 1)
             ELSE IF lp > 0
             THEN LET j == SkipClass(line, lp + 4, WS)
                  IN  Strip(SubSeq(line, j, IsrcLabelEnd(line, lp) - 1))
             ELSE NULL

extract_isrc_from_line(line) ==
    IF line = "" THEN NULL
    ELSE LET lp == IsrcLabelPos(line)
             fhits == {i \in 1..Len(line) : IsrcFullEnd(line, i) > 0}
         IN  IF lp > 0
             THEN LET j == SkipClass(line, lp + 4, WS)
                  IN  Strip(SubSeq(line, j, IsrcLabelEnd(line, lp) - 1))
             ELSE IF fhits # {}
             THEN SubSeq(line, Min(fhits), IsrcFullEnd(line, Min(fhits)) - 1)
             ELSE NULL

\* re.sub(r"ISRC\s+[A-Z]{2}[\w-]+", "", line): every labelled code removed
RECURSIVE remove_isrc_label(_)
remove_isrc_label(s) ==
    LET lp == IsrcLabelPos(s)
    IN  IF lp = 0 THEN s
        ELSE SubSeq(s, 1, lp - 1) \o remove_isrc_label(From(s, IsrcLabelEnd(s, lp)))

(***************************************************************************)
(* Chapter lines                                                           *)
(***************************************************************************)

\* re_capitulo = CAP[IÍ]TULO:\s*(.+)   (match: anchored at the start)
re_capitulo(line) ==
    LET st == SkipClass(line, 10, WS)
    IN  IF /\ Len(line) >= 9
           /\ SubSeq(line, 1, 3) = "CAP" /\ Ch(line, 4) \in {"I", "Í"}
           /\ SubSeq(line, 5, 9) = "TULO:"
           /\ st <= Len(line)
        THEN [ok |-> TRUE, g1 |-> From(line, st)]
        ELSE NoMatch

\* ([\d.,]+)\s+([\d.,]+)\s+([\d.,]+)\s+(---)\s+(\d+)\s+([A-Z])\s+([A-Z]{2})
\* matched at position i of s
ValMatchAt(s, i) ==
    LET a1 == SkipClass(s, i, AmtCh)     b1 == SkipClass(s, a1, WS)
        a2 == SkipClass(s, b1, AmtCh)    b2 == SkipClass(s, a2, WS)
        a3 == SkipClass(s, b2, AmtCh)    b3 == SkipClass(s, a3, WS)
        a4 == b3 + 3                     b4 == SkipClass(s, a4, WS)
        a5 == SkipClass(s, b4, Digit)    b5 == SkipClass(s, a5, WS)
        a6 == b5 + 1                     b6 == SkipClass(s, a6, WS)
    IN  IF /\ a1 > i /\ b1 > a1 /\ a2 > b1 /\ b2 > a2 /\ a3 > b2 /\ b3 > a3
           /\ LitAt(s, b3, "---") /\ b4 > a4
           /\ a5 > b4 /\ b5 > a5
           /\ b5 <= Len(s) /\ Ch(s, b5) \in UpperAZ /\ b6 > a6
           /\ b6 + 1 <= Len(s) /\ Ch(s, b6) \in UpperAZ /\ Ch(s, b6 + 1) \in UpperAZ
        THEN [ok |-> TRUE,
              g1 |-> SubSeq(s, i, a1 - 1), g2 |-> SubSeq(s, b1, a2 - 1),
              g3 |-> SubSeq(s, b2, a3 - 1), g4 |-> "---",
              g5 |-> SubSeq(s, b4, a5 - 1), g6 |-> Ch(s, b5),
              g7 |-> SubSeq(s, b6, b6 + 1)]
        ELSE NoMatch

\* re.search of the pattern above: leftmost match
val_match(rest) ==
    LET hits == {i \in 1..Len(rest) : ValMatchAt(rest, i).ok}
    IN  IF hits = {} THEN NoMatch ELSE ValMatchAt(rest, Min(hits))

(***************************************************************************)
(* Field normalizers                                                       *)
(***************************************************************************)

\* re.sub(r"\s+A\s+", " - ", s): leftmost, non-overlapping, repeated
RECURSIVE sub_A(_)
sub_A(s) ==
    LET hits == {i \in 1..Len(s) :
                    /\ Ch(s, i) \in WS
                    /\ LET j == SkipClass(s, i, WS)
                       IN  /\ LitAt(s, j, "A")
                           /\ SkipClass(s, j + 1, WS) > j + 1}
    IN  IF hits = {} THEN s
        ELSE LET i == Min(hits)
                 j == SkipClass(s, i, WS)
                 k == SkipClass(s, j + 1, WS)
             IN  SubSeq(s, 1, i - 1) \o " - " \o sub_A(From(s, k))

\* format_period without the substitution
format_period_strip_only(period_str) ==
    IF period_str = NULL \/ period_str = "" THEN NULL ELSE Strip(period_str)

\* format_period
format_period(period_str) ==
    IF period_str = NULL \/ period_str = "" THEN NULL ELSE sub_A(Strip(period_str))

\* str.split(" - ")
RECURSIVE split_on_dash(_)
split_on_dash(s) ==
    LET hits == {i \in 1..Len(s) : LitAt(s, i, " - ")}
    IN  IF hits = {} THEN << s >>
        ELSE << SubSeq(s, 1, Min(hits) - 1) >> \o split_on_dash(From(s, Min(hits) + 3))

\* split_period_range with the halves exchanged
split_period_range_swapped(period_str) ==
    IF period_str = NULL \/ period_str = "" THEN << NULL, NULL >>
    ELSE LET parts == split_on_dash(period_str)
         IN  IF Len(parts) = 2 THEN << Strip(parts[2]), Strip(parts[1]) >>
             ELSE << Strip(period_str), Strip(period_str) >>

\* split_period_range
split_period_range(period_str) ==
    IF period_str = NULL \/ period_str = "" THEN << NULL, NULL >>
    ELSE LET parts == split_on_dash(period_str)
         IN  IF Len(parts) = 2 THEN << Strip(parts[1]), Strip(parts[2]) >>
             ELSE << Strip(period_str), Strip(period_str) >>

RECURSIVE KeepChars(_, _)
KeepChars(s, C) ==
    IF s = "" THEN ""
    ELSE (IF Ch(s, 1) \in C THEN Ch(s, 1) ELSE "") \o KeepChars(Tail(s), C)

\* str.replace(a, b) for a single character a
RECURSIVE ReplaceCh(_, _, _)
ReplaceCh(s, a, b) ==
    IF s = "" THEN ""
    ELSE (IF Ch(s, 1) = a THEN b ELSE Ch(s, 1)) \o ReplaceCh(Tail(s), a, b)

\* float(s) for s over digits, "." and "-".  A float is written as its
\* canonical decimal numeral (no leading zeros, no trailing fractional zeros,
\* "0" for both zeros), so that equal numbers are equal strings; NULL stands
\* for ValueError.
float(s) ==
    LET neg == StartsWith(s, "-")
        body == IF neg THEN Tail(s) ELSE s
        dots == {i \in 1..Len(body) : Ch(body, i) = "."}
        int_part == IF dots = {} THEN body ELSE SubSeq(body, 1, Min(dots) - 1)
        frac_part == IF dots = {} THEN "" ELSE From(body, Min(dots) + 1)
        ip == From(int_part, SkipClass(int_part, 1, {"0"}))
        fnz == {i \in 1..Len(frac_part) : Ch(frac_part, i) # "0"}
        fr == IF fnz = {} THEN "" ELSE SubSeq(frac_part, 1, Max(fnz))
    IN  IF \/ ~AllIn(body, Digit \cup {"."})
           \/ Cardinality(dots) > 1
           \/ int_part \o frac_part = ""
        THEN NULL
        ELSE (IF neg /\ ip \o fr # "" THEN "-" ELSE "")
             \o (IF ip = "" THEN "0" ELSE ip)
             \o (IF fr = "" THEN "" ELSE "." \o fr)

\* clean_monetary_value reading "," as the thousands separator and "." as
\* the decimal point when both occur
clean_monetary_value_us(value) ==
    IF value = NULL \/ value = "" THEN NULL
    ELSE LET val == Strip(value)
             numeric_val == KeepChars(val, AmtNegCh)
             converted ==
                 IF Contains(numeric_val, ",")
                 THEN IF Contains(numeric_val, ".")
                      THEN ReplaceCh(numeric_val, ",", "")
                      ELSE ReplaceCh(numeric_val, ",", ".")
                 ELSE numeric_val
         IN  IF val \in {"---", "-", "", "None"} THEN NULL
             ELSE IF numeric_val = "" THEN NULL
             ELSE float(converted)

\* clean_monetary_value with 0.0 for the placeholder tokens
clean_monetary_value_zero(value) ==
    IF value = NULL \/ value = "" THEN NULL
    ELSE LET val == Strip(value)
             numeric_val == KeepChars(val, AmtNegCh)
             converted ==
                 IF Contains(numeric_val, ",")
                 THEN IF Contains(numeric_val, ".")
                      THEN ReplaceCh(ReplaceCh(numeric_val, ".", ""), ",", ".")
                      ELSE ReplaceCh(numeric_val, ",", ".")
                 ELSE numeric_val
         IN  IF val \in {"---", "-", "", "None"} THEN "0"
             ELSE IF numeric_val = "" THEN NULL
             ELSE float(converted)

\* clean_monetary_value
clean_monetary_value(value) ==
    IF value = NULL \/ value = "" THEN NULL
    ELSE LET val == Strip(value)
             numeric_val == KeepChars(val, AmtNegCh)
             converted ==
                 IF Contains(numeric_val, ",")
                 THEN IF Contains(numeric_val, ".")
                      THEN ReplaceCh(ReplaceCh(numeric_val, ".", ""), ",", ".")
                      ELSE ReplaceCh(numeric_val, ",", ".")
                 ELSE numeric_val
         IN  IF val \in {"---", "-", "", "None"} THEN NULL
             ELSE IF numeric_val = "" THEN NULL
             ELSE float(converted)

\* Python's "a or b" on optional strings
Or(a, b) == IF a # NULL /\ a # "" THEN a ELSE b

(***************************************************************************)
(* 3. Master schema (app/utils/formatters.py)                              *)
(***************************************************************************)
MASTER_SCHEMA_COLUMNS == <<
    "titular", "documento_origem", "arquivo_origem", "obra_referencia", "rubrica",
    "periodo", "periodo_inicial", "periodo_final", "rendimento",
    "percentual_rateio", "valor_rateio", "correcao", "execucoes", "categoria",
    "caracteristica", "isrc_iswc", "data_pagamento", "valor_bruto",
    "valor_liquido", "tipo_extracao" >>

Range(f) == {f[i] : i \in DOMAIN f}

\* key order of the dict literals the extractors build
DataRowKeys == <<
    "titular", "documento_origem", "arquivo_origem", "obra_referencia",
    "obra_codigo", "rubrica", "periodo", "rendimento", "percentual_rateio",
    "valor_rateio", "correcao", "execucoes", "categoria", "caracteristica",
    "isrc_iswc", "data_pagamento", "valor_bruto", "valor_liquido",
    "tipo_extracao", "artista_gravacao", "or_e_peso" >>

CapRowKeys == <<
    "titular", "documento_origem", "obra_referencia", "obra_codigo", "rubrica",
    "periodo", "rendimento", "percentual_rateio", "valor_rateio", "correcao",
    "execucoes", "categoria", "caracteristica", "isrc_iswc", "data_pagamento",
    "valor_bruto", "valor_liquido", "tipo_extracao", "artista_gravacao" >>

AutoralRowKeys == <<
    "titular", "documento_origem", "arquivo_origem", "obra_referencia",
    "obra_codigo", "isrc_iswc", "cod_ecad_participante", "nome_participante",
    "pseudonimo_participante", "cae_participante", "associacao_participante",
    "categoria", "percentual_rateio", "tipo_extracao" >>

AutoralFallbackRowKeys == <<
    "titular", "documento_origem", "obra_referencia",
    "obra_codigo", "isrc_iswc", "cod_ecad_participante", "nome_participante",
    "pseudonimo_participante", "cae_participante", "associacao_participante",
    "categoria", "percentual_rateio", "tipo_extracao" >>

ConexoRowKeys == <<
    "titular", "documento_origem", "arquivo_origem", "obra_referencia",
    "obra_codigo", "isrc_iswc", "situacao", "complemento_titulo",
    "cod_ecad_participante", "nome_participante", "pseudonimo_participante",
    "categoria", "subcategoria", "associacao_participante", "percentual_rateio",
    "tipo_extracao" >>

ConexoFallbackRowKeys == <<
    "titular", "documento_origem", "obra_referencia",
    "obra_codigo", "isrc_iswc", "situacao", "complemento_titulo",
    "cod_ecad_participante", "nome_participante", "pseudonimo_participante",
    "categoria", "subcategoria", "associacao_participante", "percentual_rateio",
    "tipo_extracao" >>

KeysOf(row) ==
    CHOOSE ks \in {DataRowKeys, CapRowKeys, AutoralRowKeys, AutoralFallbackRowKeys,
                   ConexoRowKeys, ConexoFallbackRowKeys} : Range(ks) = DOMAIN row

\* the elements of s that are in S, in order
SelectSeq2(s, S) == LET in_S(x) == x \in S IN SelectSeq(s, in_S)

\* s followed by the elements of t that are not yet in it, in order (t, the
\* keys of a dict, has no element twice)
AppendNew(s, t) == s \o SelectSeq2(t, Range(t) \ Range(s))

\* pd.DataFrame(rows).columns: the keys in order of first appearance
RECURSIVE FrameColumns(_)
FrameColumns(rs) ==
    IF rs = << >> THEN << >>
    ELSE AppendNew(FrameColumns(SubSeq(rs, 1, Len(rs) - 1)), KeysOf(rs[Len(rs)]))

\* a DataFrame: its column list and its records; a cell no row dict supplied
\* (NaN) and a None cell are both NULL
DataFrame_newest_first(rs) ==
    LET cols == FrameColumns(rs)
    IN  [columns |-> cols,
         records |-> [i \in 1..Len(rs) |->
                         [c \in Range(cols) |->
                             IF c \in DOMAIN rs[Len(rs) + 1 - i]
                             THEN rs[Len(rs) + 1 - i][c] ELSE NULL]]]

DataFrame(rs) ==
    LET cols == FrameColumns(rs)
    IN  [columns |-> cols,
         records |-> [i \in 1..Len(rs) |->
                         [c \in Range(cols) |->
                             IF c \in DOMAIN rs[i] THEN rs[i][c] ELSE NULL]]]

\* pd.DataFrame(): a frame without columns
EmptyFrameNoColumns == [columns |-> << >>, records |-> << >>]

\* pd.DataFrame(columns=MASTER_SCHEMA_COLUMNS)
EmptyFrame == [columns |-> master_schema_columns, records |-> << >>]

\* df[name] = value (a new column goes last; value is a function of the record)
SetColumn(df, name, value(_)) ==
    [columns |-> IF name \in Range(df.columns) THEN df.columns
                 ELSE Append(df.columns, name),
     records |-> [i \in 1..Len(df.records) |->
                     [c \in Range(df.columns) \cup {name} |->
                         IF c = name THEN value(df.records[i])
                         ELSE df.records[i][c]]]]

\* "df[col] = ''" in place of "df[col] = None"
FillMissingEmptyString(df, cols) ==
    [columns |-> df.columns \o SelectSeq2(cols, Range(cols) \ Range(df.columns)),
     records |-> [i \in 1..Len(df.records) |->
                     [c \in Range(df.columns) \cup Range(cols) |->
                         IF c \in Range(df.columns) THEN df.records[i][c]
                         ELSE ""]]]

\* "for col in MASTER_SCHEMA_COLUMNS: if col not in df.columns: df[col] = None":
\* the columns of cols that df lacks are added after its own, in the order
\* of cols, and hold None in every record
FillMissing(df, cols) ==
    [columns |-> df.columns \o SelectSeq2(cols, Range(cols) \ Range(df.columns)),
     records |-> [i \in 1..Len(df.records) |->
                     [c \in Range(df.columns) \cup Range(cols) |->
                         IF c \in Range(df.columns) THEN df.records[i][c]
                         ELSE NULL]]]

\* normalize_to_master_schema(df, tipo_extracao, titular, documento_origem)
normalize_to_master_schema(df, tipo_extracao, titular, documento_origem) ==
    IF df.records = << >> THEN EmptyFrame
    ELSE LET has(d, c) == c \in Range(d.columns)
             c_tipo(r) == tipo_extracao
             c_titular(r) == titular
             c_doc(r) == documento_origem
             c_none(r) == NULL
             c_ini(r) == split_period_range(r["periodo"])[1]
             c_fim(r) == split_period_range(r["periodo"])[2]
             d1 == IF has(df, "tipo_extracao") THEN df
                   ELSE SetColumn(df, "tipo_extracao", c_tipo)
             d2 == IF ~has(d1, "titular") /\ titular # NULL /\ titular # ""
                   THEN SetColumn(d1, "titular", c_titular) ELSE d1
             d3 == IF ~has(d2, "documento_origem") /\ documento_origem # NULL
                      /\ documento_origem # ""
                   THEN SetColumn(d2, "documento_origem", c_doc) ELSE d2
             d4 == IF has(d3, "arquivo_origem") THEN d3
                   ELSE SetColumn(d3, "arquivo_origem", c_none)
             d5 == IF has(d4, "periodo")
                   THEN SetColumn(SetColumn(d4, "periodo_inicial", c_ini),
                                  "periodo_final", c_fim)
                   ELSE SetColumn(SetColumn(d4, "periodo_inicial", c_none),
                                  "periodo_final", c_none)
             d6 == FillMissing(d5, master_schema_columns)
             extra_cols == SelectSeq2(d6.columns,
                                      Range(d6.columns) \ Range(master_schema_columns))
         IN  [columns |-> master_schema_columns \o extra_cols, records |-> d6.records]

\* MASTER_SCHEMA_COLUMNS.extend(extra_cols): the list extended in place
schema_extended_in_place(schema, columns) ==
    schema \o SelectSeq2(columns, Range(columns) \ Range(schema))

\* the module's list after normalize_to_master_schema returned a frame with
\* these columns: "MASTER_SCHEMA_COLUMNS + extra_cols" builds a new list
schema_after_normalize(schema, columns) == schema

(***************************************************************************)
(* Pages.  A page is the sequence of the names of its lines; LineText gives *)
(* the text pdfplumber extracts for a line.                                *)
(***************************************************************************)

LineText ==
    [blank |-> "",
     colhdr |-> "OBRA RUBRICA PERÍODO",
     banner |-> "DISTRIBUIÇÃO DE DIREITOS",
     headerA |-> "00012345 SOME WORK TITLE 150,00 --- 10",
     headerB |-> "00054321 OTHER",
     headerIsrc |-> "00012345 SOME ISRC BR-ABC-12-12345",
     headerFurn |-> "00033333 AMOR.E PAZ",
     headerData |-> "00077777 JOHN AP-SHOW 06/2024 10,00 50,00 5,00 --- 3 A BB",
     data |-> "JOHN DOE SDI 06/2024 A 08/2024 10,00 50,00 5,00 --- 3 A BB",
     dataPadded |-> "  JANE ROE SDI 07/2024 1.234,56 100,00 1.234,56 --- 1 B CC",
     dataBoth |-> "JOHN SPOTIFY BR 06/2024 10,00 50,00 5,00 --- 3 A BB",
     dataDigital |-> "JOHN SPOTIFY 06/2024 10,00 50,00 5,00 --- 3 A BB X1 Y2",
     dataIsrc |-> "ISRC BR-XYZ-99-00001 JOHN DOE SDI 06/2024 10,00 50,00 5,00 --- 3 A BB",
     dataBare |-> "BRXYZ9900002 JOHN DOE SDI 06/2024 10,00 50,00 5,00 --- 3 A BB",
     dataNull |-> "JOHN DOE SDI 06/2024 --- - 1,2,3 --- 3 A BB",
     isrc |-> "ISRC BR-ABC-12-12345",
     isrcShort |-> "ISRC BR-ABC-12-12345 LIVE",
     capitulo |-> "CAPÍTULO: 12 10,00 50,00 5,00 --- 3 A BB",
     capPlain |-> "CAPÍTULO: 12 FINAL",
     capIsrc |-> "CAPÍTULO: 12 ISRC BR-ABC-12-12345",
     capPeriod |-> "CAPÍTULO: 12 SDI 06/2024 10,00 50,00 5,00 --- 3 A BB",
     other |-> "SUBTOTAL",
     sigAutoral |-> "RELATÓRIO ANALÍTICO DE TITULAR AUTORAL E SUAS OBRAS",
     sigConexo |-> "Relatório Analítico de Titular Conexo e suas Gravações",
     sigDigitais |-> "DEMONSTRATIVO DO TITULAR DE SERVIÇOS DIGITAIS",
     kwTitular |-> "Demonstrativo do Titular",
     kwExecucao |-> "EXECUÇÃO PÚBLICA",
     kwPrescritos |-> "ANTECIPAÇÃO DE PRESCRITOS",
     kwPrescritiveis |-> "DISTRIBUIÇÃO DE PRESCRITÍVEIS",
     obraColHdr |-> "CÓD. OBRA ISWC TÍTULO DA OBRA",
     obra |-> "00012345 T-123.456.789-0 MINHA OBRA ABRAMUS LB ORIGINAL SIM 01/02/2020",
     obraB |-> "00054321 OUTRA OBRA UBC LB ORIGINAL SIM",
     obraSimple |-> "00077777 T-111.222.333-4 TERCEIRA",
     obraNoAssoc |-> "00088888 QUARTA OBRA LB ORIGINAL SIM",
     part4 |-> "1234 JOAO DA SILVA JOAO 00123.45.67.89 ABRAMUS CA 50,00",
     part5 |-> "1234567 MARIA SOUZA MARIA 00987.65.43.21 UBC A 25,50",
     gravColHdr |-> "CÓD. ECAD ISRC/GRA TÍTULO",
     grav |-> "00054321 BR-ABC-12-12345 LIBERADO MINHA GRAVACAO SIM X",
     gravB |-> "00099999 BR-XYZ-99-00001 BLOQUEADO OUTRA GRAVACAO NAO",
     gravLoose |-> "00066666 BR-QQQ-11-22222 SEM SITUACAO",
     gravPlain |-> "00066666 BR-QQQ-11-22222 FAIXA BONUS",
     gravNoNac |-> "00077777 BR-RRR-22-33333 PENDENTE TERCEIRA FAIXA",
     cPart4 |-> "1234 JOAO DA SILVA  JOAO MI IN ABRAMUS 100,00",
     cPart5 |-> "1234567 MARIA SOUZA  MARIA MI IN UBC 25,50",
     cPartDash |-> "7654321 ZE-RAMALHO  ZE MI IN ABRAMUS 100,00",
     complemento |-> "LIVE (AO VIVO)"]

KnownLines == {LineText[k] : k \in DOMAIN LineText}

\* page.extract_text(): the lines of the page joined by line feeds
RECURSIVE extract_text(_)
extract_text(page) ==
    IF page = << >> THEN ""
    ELSE IF Len(page) = 1 THEN LineText[page[1]]
    ELSE LineText[page[1]] \o "\n" \o extract_text(Tail(page))

\* extract_page_lines(page): nothing for a page without text, else
\* text.split("\n")
extract_page_lines(page) ==
    IF extract_text(page) = "" THEN << >>
    ELSE [i \in 1..Len(page) |-> LineText[page[i]]]

\* extract_first_page_text(pdf_path)
extract_first_page_text(pages) ==
    IF pages # << >> THEN extract_text(pages[1]) ELSE ""

(***************************************************************************)
(* 4. _extract_demonstrativo_padrao                                        *)
(***************************************************************************)

\* "OBRA" in line and ("RUBRICA" in line or "RENDIMENTO" in line or "PERÍODO" in line)
is_column_header(line) ==
    /\ Contains(line, "OBRA")
    /\ (Contains(line, "RUBRICA") \/ Contains(line, "RENDIMENTO")
        \/ Contains(line, "PERÍODO"))

\* keywords of lines ignored outside the header band
FurnitureKeywords ==
    {"EXEC. - NÚM.", "AS INFORMAÇÕES REFERENTES", "ECAD.Tec",
     "DEMONSTRATIVO DO TITULAR", "DISTRIBUIÇÃO DE PRESCRITÍVEIS",
     "ANTECIPAÇÃO DE PRESCRITOS", "CNPJ/CPF:", "CAE/IPI:", "COD ECAD:",
     "OR.E", "TP."}

is_furniture(line) == \E kw \in FurnitureKeywords : Contains(line, kw)

\* a banner test that never succeeds
is_banner_never(line) == FALSE

\* "DISTRIBUIÇÃO DE DIREITOS" in line
is_banner(line) == Contains(line, "DISTRIBUIÇÃO DE DIREITOS")

\* the code-only test without the length threshold
isrc_only_when_empty(cleaned) == cleaned = ""

\* not cleaned or len(cleaned) < 5
isrc_only(cleaned) == cleaned = "" \/ Len(cleaned) < 5

\* lines.index(x) if x in lines else -1   (1-based; 0 stands for -1)
IndexOf(lines, x) ==
    LET hits == {i \in 1..Len(lines) : lines[i] = x}
    IN  IF hits = {} THEN 0 ELSE Min(hits)

\* current_obra_codigo or current_obra_titulo: the operands exchanged
obra_referencia_code_first(st) == Or(st.obra_codigo, st.obra_titulo)

\* current_obra_titulo or current_obra_codigo
obra_referencia(st) == Or(st.obra_titulo, st.obra_codigo)

\* the values a data row takes from the groups of the match (lines 357-372)
data_fields(m) ==
    [rubrica |-> clean_text(m.g2),
     periodo |-> format_period(m.g3),
     rendimento |-> clean_monetary_value(m.g4),
     percentual_rateio |-> clean_monetary_value(m.g5),
     valor_rateio |-> clean_monetary_value(m.g6),
     correcao |-> Strip(m.g7),
     execucoes |-> clean_text(m.g8),
     categoria |-> Strip(m.g9),
     caracteristica |-> Strip(m.g10),
     valor_bruto |-> clean_monetary_value(m.g4),
     valor_liquido |-> clean_monetary_value(m.g6),
     artista_gravacao |-> clean_text(m.g1),
     or_e_peso |-> IF m.lastindex >= 11 THEN clean_text(m.g11) ELSE NULL]

\* data_row with the category left out under the digital-services tag
data_row_by_tipo(ctx, st, f, isrc) ==
    [titular |-> ctx.titular,
     documento_origem |-> ctx.tipo,
     arquivo_origem |-> ctx.original_filename,
     obra_referencia |-> obra_referencia(st),
     obra_codigo |-> st.obra_codigo,
     rubrica |-> f.rubrica,
     periodo |-> f.periodo,
     rendimento |-> f.rendimento,
     percentual_rateio |-> f.percentual_rateio,
     valor_rateio |-> f.valor_rateio,
     correcao |-> f.correcao,
     execucoes |-> f.execucoes,
     categoria |-> IF ctx.tipo = "DEMONSTRATIVO_SERVICOS_DIGITAIS" THEN NULL
                   ELSE f.categoria,
     caracteristica |-> f.caracteristica,
     isrc_iswc |-> isrc,
     data_pagamento |-> ctx.periodo_dist,
     valor_bruto |-> f.valor_bruto,
     valor_liquido |-> f.valor_liquido,
     tipo_extracao |-> ctx.tipo,
     artista_gravacao |-> f.artista_gravacao,
     or_e_peso |-> f.or_e_peso]

\* the dict of a matched data line (lines 351-373); f = data_fields(data_match)
data_row(ctx, st, f, isrc) ==
    [titular |-> ctx.titular,
     documento_origem |-> ctx.tipo,
     arquivo_origem |-> ctx.original_filename,
     obra_referencia |-> obra_referencia(st),
     obra_codigo |-> st.obra_codigo,
     rubrica |-> f.rubrica,
     periodo |-> f.periodo,
     rendimento |-> f.rendimento,
     percentual_rateio |-> f.percentual_rateio,
     valor_rateio |-> f.valor_rateio,
     correcao |-> f.correcao,
     execucoes |-> f.execucoes,
     categoria |-> f.categoria,
     caracteristica |-> f.caracteristica,
     isrc_iswc |-> isrc,
     data_pagamento |-> ctx.periodo_dist,
     valor_bruto |-> f.valor_bruto,
     valor_liquido |-> f.valor_liquido,
     tipo_extracao |-> ctx.tipo,
     artista_gravacao |-> f.artista_gravacao,
     or_e_peso |-> f.or_e_peso]

\* variant: the rubrica is the whole remainder of the chapter line
cap_fields_whole_remainder(cap, v) ==
    [rubrica |-> "CAPITULO:" \o cap.g1,
     rendimento |-> clean_monetary_value(v.g1),
     percentual_rateio |-> clean_monetary_value(v.g2),
     valor_rateio |-> clean_monetary_value(v.g3),
     correcao |-> v.g4,
     execucoes |-> clean_text(v.g5),
     categoria |-> v.g6,
     caracteristica |-> v.g7,
     valor_bruto |-> clean_monetary_value(v.g1),
     valor_liquido |-> clean_monetary_value(v.g3)]

\* the values a chapter row takes from the chapter and value matches
\* (lines 396-404)
cap_fields(cap, v) ==
    [rubrica |-> IF split(cap.g1) # << >> THEN "CAPITULO:" \o split(cap.g1)[1]
                 ELSE NULL,
     rendimento |-> clean_monetary_value(v.g1),
     percentual_rateio |-> clean_monetary_value(v.g2),
     valor_rateio |-> clean_monetary_value(v.g3),
     correcao |-> v.g4,
     execucoes |-> clean_text(v.g5),
     categoria |-> v.g6,
     caracteristica |-> v.g7,
     valor_bruto |-> clean_monetary_value(v.g1),
     valor_liquido |-> clean_monetary_value(v.g3)]

\* the dict of a chapter line with values (lines 391-411); f = cap_fields(..)
cap_row(ctx, st, f) ==
    [titular |-> ctx.titular,
     documento_origem |-> ctx.tipo,
     obra_referencia |-> obra_referencia(st),
     obra_codigo |-> st.obra_codigo,
     rubrica |-> f.rubrica,
     periodo |-> NULL,
     rendimento |-> f.rendimento,
     percentual_rateio |-> f.percentual_rateio,
     valor_rateio |-> f.valor_rateio,
     correcao |-> f.correcao,
     execucoes |-> f.execucoes,
     categoria |-> f.categoria,
     caracteristica |-> f.caracteristica,
     isrc_iswc |-> st.isrc,
     data_pagamento |-> ctx.periodo_dist,
     valor_bruto |-> f.valor_bruto,
     valor_liquido |-> f.valor_liquido,
     tipo_extracao |-> ctx.tipo,
     artista_gravacao |-> NULL]

line_patterns_found(line, simple_match, candidate_rest, std_match, digital_match, cap_match, v) ==
    [is_column_header |-> is_column_header(line),
     banner |-> is_banner(line),
     furniture |-> is_furniture(line),
     isrc_detected |-> extract_isrc_from_line(line),
     cleaned |-> Strip(remove_isrc_label(line)),
     obra_match |-> re_obra_header(line),
     simple_match |-> simple_match,
     data_marker |-> has_data_marker(candidate_rest),
     title_match |-> title_match(candidate_rest),
     perc_match |-> perc_match(candidate_rest),
     std_match |-> std_match,
     std_fields |-> IF std_match.ok THEN data_fields(std_match) ELSE NoMatch,
     digital_match |-> digital_match,
     digital_fields |-> IF digital_match.ok THEN data_fields(digital_match)
                        ELSE NoMatch,
     cap_match |-> cap_match,
     val_match |-> v,
     cap_fields |-> IF v.ok THEN cap_fields(cap_match, v) ELSE NoMatch]

line_patterns_matched(line, simple_match, cap_match) ==
    line_patterns_found(line, simple_match,
                        IF simple_match.ok THEN Strip(simple_match.g2) ELSE "",
                        re_data_line(line), re_data_line_digital(line), cap_match,
                        IF cap_match.ok THEN val_match(cap_match.g1) ELSE NoMatch)

\* what the tests of one turn of the loop yield on a stripped line: the
\* keyword tests of lines 239, 266 and 269-285, the ISRC detection of lines
\* 288-292 and the pattern matches of lines 297-387
line_patterns(line) ==
    line_patterns_matched(line, re_obra_header_simple(line), re_capitulo(line))

\* line_patterns tabulated over the lines documents are made of
LinePatterns == [line \in {Strip(l) : l \in KnownLines} |-> line_patterns(line)]

\* extract_isrc_from_line tabulated over the lines documents are made of
LineIsrc == [line \in KnownLines |-> extract_isrc_from_line(line)]

\* extract_isrc_from_window scanning only the lines before current_index
extract_isrc_from_window_before_only(lines, current_index, window_size) ==
    LET start == IF current_index - window_size > 1
                 THEN current_index - window_size ELSE 1
        found == {i \in start..(current_index - 1) :
                     LineIsrc[lines[i]] # NULL}
    IN  IF found = {} THEN NULL ELSE LineIsrc[lines[Min(found)]]

\* extract_isrc_from_window(lines, current_index, window_size); indices are
\* 1-based here: range(max(0, i - w), min(len, i + w + 1)) is start..end below
extract_isrc_from_window(lines, current_index, window_size) ==
    LET start == IF current_index - window_size > 1
                 THEN current_index - window_size ELSE 1
        end == IF current_index + window_size < Len(lines)
               THEN current_index + window_size ELSE Len(lines)
        found == {i \in start..end :
                     i # current_index /\ LineIsrc[lines[i]] # NULL}
    IN  IF found = {} THEN NULL ELSE LineIsrc[lines[Min(found)]]

\* the header branches without the reset of the pending ISRC
padrao_header_keeps_isrc(st, p) ==
    IF p.obra_match.ok
    THEN [st EXCEPT !.obra_codigo = p.obra_match.g1,
                    !.obra_titulo = clean_text(titulo_clean(Strip(p.obra_match.g2))),
                    !.branch = "obra_header"]
    ELSE IF p.simple_match.ok /\ ~p.data_marker /\ p.title_match.ok
    THEN [st EXCEPT !.obra_codigo = p.simple_match.g1,
                    !.obra_titulo = clean_text(p.title_match.g1),
                    !.branch = "obra_header_simple"]
    ELSE IF p.simple_match.ok /\ ~p.data_marker /\ p.perc_match
    THEN [st EXCEPT !.obra_codigo = p.simple_match.g1,
                    !.obra_titulo = NULL,
                    !.branch = "obra_header_simple"]
    ELSE st

\* the header branches: the work header of lines 296-310 and the simplified
\* header of lines 312-337; st already carries the ISRC detected in the line
padrao_header(st, p) ==
    IF p.obra_match.ok
    THEN [st EXCEPT !.obra_codigo = p.obra_match.g1,
                    !.obra_titulo = clean_text(titulo_clean(Strip(p.obra_match.g2))),
                    !.isrc = NULL,
                    !.branch = "obra_header"]
    ELSE IF p.simple_match.ok /\ ~p.data_marker /\ p.title_match.ok
    THEN [st EXCEPT !.obra_codigo = p.simple_match.g1,
                    !.obra_titulo = clean_text(p.title_match.g1),
                    !.isrc = NULL,
                    !.branch = "obra_header_simple"]
    ELSE IF p.simple_match.ok /\ ~p.data_marker /\ p.perc_match
    THEN [st EXCEPT !.obra_codigo = p.simple_match.g1,
                    !.obra_titulo = NULL,
                    !.isrc = NULL,
                    !.branch = "obra_header_simple"]
    ELSE st

\* the digital-platform pattern tried before the standard one
data_cascade_digital_first(p) ==
    IF p.digital_match.ok
    THEN [ok |-> TRUE, pattern |-> "data_digital", fields |-> p.digital_fields]
    ELSE IF p.std_match.ok
    THEN [ok |-> TRUE, pattern |-> "data", fields |-> p.std_fields]
    ELSE NoMatch

\* data_match = re_data_line.match(line), else re_data_line_digital.match(line)
data_cascade(p) ==
    IF p.std_match.ok
    THEN [ok |-> TRUE, pattern |-> "data", fields |-> p.std_fields]
    ELSE IF p.digital_match.ok
    THEN [ok |-> TRUE, pattern |-> "data_digital", fields |-> p.digital_fields]
    ELSE NoMatch

\* variant: a line that matches nothing drops the title carried forward
padrao_data_forgets_title(ctx, st, lines, line, p) ==
    LET data_match == data_cascade(p)
        line_idx0 == IndexOf(lines, line)
        isrc == IF (st.isrc = NULL \/ st.isrc = "") /\ line_idx0 >= 1
                THEN extract_isrc_from_window(lines, line_idx0, 2)
                ELSE st.isrc
    IN  IF data_match.ok
        THEN [st EXCEPT !.rows = Append(@, data_row(ctx, st, data_match.fields, isrc)),
                        !.isrc = NULL,
                        !.branch = data_match.pattern]
        ELSE IF p.cap_match.ok /\ p.val_match.ok
        THEN [st EXCEPT !.rows = Append(@, cap_row(ctx, st, p.cap_fields)),
                        !.isrc = NULL,
                        !.branch = "capitulo"]
        ELSE [st EXCEPT !.obra_titulo = NULL]

\* variant: the pending ISRC is left as it is when a row is emitted
padrao_data_keeps_isrc(ctx, st, lines, line, p) ==
    LET data_match == data_cascade(p)
        line_idx0 == IndexOf(lines, line)
        isrc == IF (st.isrc = NULL \/ st.isrc = "") /\ line_idx0 >= 1
                THEN extract_isrc_from_window(lines, line_idx0, 2)
                ELSE st.isrc
    IN  IF data_match.ok
        THEN [st EXCEPT !.rows = Append(@, data_row(ctx, st, data_match.fields, isrc)),
                        !.branch = data_match.pattern]
        ELSE IF p.cap_match.ok /\ p.val_match.ok
        THEN [st EXCEPT !.rows = Append(@, cap_row(ctx, st, p.cap_fields)),
                        !.branch = "capitulo"]
        ELSE st

\* the data cascade of lines 339-377 and the chapter branch of lines 379-413
padrao_data(ctx, st, lines, line, p) ==
    LET data_match == data_cascade(p)
        line_idx0 == IndexOf(lines, line)
        isrc == IF (st.isrc = NULL \/ st.isrc = "") /\ line_idx0 >= 1
                THEN extract_isrc_from_window(lines, line_idx0, 2)
                ELSE st.isrc
    IN  IF data_match.ok
        THEN [st EXCEPT !.rows = Append(@, data_row(ctx, st, data_match.fields, isrc)),
                        !.isrc = NULL,
                        !.branch = data_match.pattern]
        ELSE IF p.cap_match.ok /\ p.val_match.ok
        THEN [st EXCEPT !.rows = Append(@, cap_row(ctx, st, p.cap_fields)),
                        !.isrc = NULL,
                        !.branch = "capitulo"]
        ELSE st

padrao_branches(ctx, st, lines, line, p, st1, st2) ==
    IF line = "" THEN [st EXCEPT !.branch = "blank"]
    ELSE IF st.skip_header
    THEN IF p.is_column_header
         THEN [st EXCEPT !.skip_header = FALSE, !.branch = "column_header"]
         ELSE [st EXCEPT !.branch = "skipped"]
    ELSE IF p.banner
    THEN [st EXCEPT !.skip_header = TRUE, !.branch = "banner"]
    ELSE IF p.furniture THEN [st EXCEPT !.branch = "furniture"]
    ELSE IF p.isrc_detected # NULL /\ isrc_only(p.cleaned)
    THEN [st1 EXCEPT !.branch = "isrc_only"]
    ELSE IF st2.branch # "no_match" THEN st2
    ELSE padrao_data(ctx, st1, lines, line, p)

padrao_detected(ctx, st, lines, line, p, st1) ==
    padrao_branches(ctx, st, lines, line, p, st1, padrao_header(st1, p))

padrao_tested(ctx, st, lines, line, p) ==
    padrao_detected(ctx, st, lines, line, p,
                    IF p.isrc_detected # NULL
                    THEN [st EXCEPT !.isrc = p.isrc_detected] ELSE st)

\* one turn of the loop "for line in lines" (lines 232-413) on lines[i];
\* st = [skip_header, obra_codigo, obra_titulo, isrc, rows, branch]
padrao_line(ctx, st0, lines, i) ==
    padrao_tested(ctx, [st0 EXCEPT !.branch = "no_match"], lines, Strip(lines[i]),
                  LinePatterns[Strip(lines[i])])

Context ==
    [titular |-> header_info.titular,
     periodo_dist |-> header_info.periodo_distribuicao,
     tipo |-> tipo,
     original_filename |-> original_filename]

LoopState ==
    [skip_header |-> skip_header, obra_codigo |-> current_obra_codigo,
     obra_titulo |-> current_obra_titulo, isrc |-> current_isrc,
     rows |-> rows, branch |-> "no_match"]

\* variant: the work code and title are dropped at the start of a page
PadraoNextPageForgetsWork ==
    /\ \/ pc = "padrao" /\ page_idx = 0
       \/ pc = "padrao_lines" /\ line_idx > Len(extract_page_lines(doc[page_idx]))
    /\ page_idx < Len(doc)
    /\ pc' = "padrao_lines"
    /\ page_idx' = page_idx + 1
    /\ line_idx' = 1
    /\ skip_header' = TRUE
    /\ current_obra_codigo' = NULL
    /\ current_obra_titulo' = NULL
    /\ UNCHANGED << layout, tipo, original_filename, header_info,
                    doc, current_isrc,
                    current_situacao, current_complemento, rows, result, trace >>
    /\ UNCHANGED << error, globals, controller, utility >>

\* entry of the page loop: "lines = extract_page_lines(page); skip_header = True"
PadraoNextPage ==
    /\ \/ pc = "padrao" /\ page_idx = 0
       \/ pc = "padrao_lines" /\ line_idx > Len(extract_page_lines(doc[page_idx]))
    /\ page_idx < Len(doc)
    /\ pc' = "padrao_lines"
    /\ page_idx' = page_idx + 1
    /\ line_idx' = 1
    /\ skip_header' = TRUE
    /\ UNCHANGED << layout, tipo, original_filename, header_info,
                    doc, current_obra_codigo, current_obra_titulo, current_isrc,
                    current_situacao, current_complemento, rows, result, trace >>
    /\ UNCHANGED << error, globals, controller, utility >>

\* PadraoLine as a loop that does not advance: the line is read again
PadraoLineAgain ==
    /\ pc = "padrao_lines"
    /\ line_idx <= Len(extract_page_lines(doc[page_idx]))
    /\ \E st \in {padrao_line(Context, LoopState,
                             extract_page_lines(doc[page_idx]), line_idx)} :
           /\ skip_header' = st.skip_header
           /\ current_obra_codigo' = st.obra_codigo
           /\ current_obra_titulo' = st.obra_titulo
           /\ current_isrc' = st.isrc
           /\ rows' = st.rows
           /\ trace' = Append(trace, [page |-> page_idx, idx |-> line_idx,
                                      branch |-> st.branch,
                                      nrows |-> Len(st.rows)])
    /\ line_idx' = line_idx
    /\ UNCHANGED << pc, layout, tipo, original_filename,
                    header_info, doc, page_idx, current_situacao,
                    current_complemento, result >>
    /\ UNCHANGED << error, globals, controller, utility >>

\* one line of the current page
PadraoLine ==
    /\ pc = "padrao_lines"
    /\ line_idx <= Len(extract_page_lines(doc[page_idx]))
    /\ \E st \in {padrao_line(Context, LoopState,
                             extract_page_lines(doc[page_idx]), line_idx)} :
           /\ skip_header' = st.skip_header
           /\ current_obra_codigo' = st.obra_codigo
           /\ current_obra_titulo' = st.obra_titulo
           /\ current_isrc' = st.isrc
           /\ rows' = st.rows
           /\ trace' = Append(trace, [page |-> page_idx, idx |-> line_idx,
                                      branch |-> st.branch,
                                      nrows |-> Len(st.rows)])
    /\ line_idx' = line_idx + 1
    /\ UNCHANGED << pc, layout, tipo, original_filename,
                    header_info, doc, page_idx, current_situacao,
                    current_complemento, result >>
    /\ UNCHANGED << error, globals, controller, utility >>

\* after the last page: empty frame, or the normalized frame of the rows
PadraoReturn ==
    /\ \/ pc = "padrao" /\ page_idx = 0
       \/ pc = "padrao_lines" /\ line_idx > Len(extract_page_lines(doc[page_idx]))
    /\ page_idx = Len(doc)
    /\ pc' = "done"
    /\ result' = IF rows = << >> THEN EmptyFrame
                 ELSE normalize_to_master_schema(DataFrame(rows), tipo,
                                                 header_info.titular, tipo)
    /\ UNCHANGED << layout, tipo, original_filename, header_info,
                    doc, page_idx, line_idx, skip_header, current_obra_codigo,
                    current_obra_titulo, current_isrc, current_situacao,
                    current_complemento, rows, trace >>
    /\ master_schema_columns' =
           IF rows = << >> THEN master_schema_columns
           ELSE schema_after_normalize(master_schema_columns, result'.columns)
    /\ UNCHANGED << error, layout_signatures, controller, utility >>

NextPadrao == PadraoNextPage \/ PadraoLine \/ PadraoReturn

(***************************************************************************)
(* 5. Patterns of _extract_relatorio_analitico_autoral and                 *)
(*    _extract_relatorio_analitico_conexo                                  *)
(*    (operators take the stripped line, as the code passes it)            *)
(***************************************************************************)
IswcCh == Digit \cup {".", "-"}           \* [\d.\-]
NameCh == UpperAZ \cup {"."}              \* the non-blank characters of [A-Z\s.]
XCh == {"X"} \cup WS                      \* [X\s]

Associacoes == {"ABRAMUS", "UBC", "SBACEM", "SOCINPRO", "AMAR", "SADEMBRA", "ASSIM"}
TiposObra == {"ORIGINAL", "VERSAO", "ARRANJO", "COMPILACAO", "TRILHA", "PARODIA", "MEDLEY"}
Nacional == {"SIM", "NÃO", "NAO"}
SituacoesObra == {"LB", "BL", "BL/DU", "DU", "LB/DU"}
SituacoesGravacao == {"LIBERADO", "BLOQUEADO", "PENDENTE"}

\* (x|y|...)? at position i of s: the position after the literal, i when none
OptLitAt(s, i, L) ==
    IF \E x \in L : LitAt(s, i, x)
    THEN i + Len(CHOOSE x \in L : LitAt(s, i, x)) ELSE i

\* (\d{2}/\d{2}/\d{4})? at position i of s
OptDateAt(s, i) ==
    IF /\ i + 9 <= Len(s)
       /\ AllIn(SubSeq(s, i, i + 1), Digit) /\ Ch(s, i + 2) = "/"
       /\ AllIn(SubSeq(s, i + 3, i + 4), Digit) /\ Ch(s, i + 5) = "/"
       /\ AllIn(SubSeq(s, i + 6, i + 9), Digit)
    THEN i + 10 ELSE i

\* (TIPO)?\s*(SIM|NÃO|NAO)?\s*(date)? at position i of s: where it stops
OptTrailerAt(s, i, tipos) ==
    OptDateAt(s, SkipClass(s, OptLitAt(s, SkipClass(s, OptLitAt(s, i, tipos), WS),
                                        Nacional), WS))

IsD4(t) == Len(t) >= 4 /\ AllIn(t, Digit)                 \* \d{4,}
IsCat(t) == Len(t) \in {1, 2} /\ AllIn(t, UpperAZ)        \* [A-Z]{1,2}
\* T-[\d.\-]+
IsIswc(t) == Len(t) >= 3 /\ StartsWith(t, "T-") /\ AllIn(From(t, 3), IswcCh)
\* [A-Z]{2}-[\w-]+
IsIsrcCode(t) ==
    Len(t) >= 4 /\ AllIn(SubSeq(t, 1, 2), UpperAZ) /\ Ch(t, 3) = "-"
    /\ AllIn(From(t, 4), CodeCh)
\* \d{5}\.\d{2}\.\d{2}\.\d{2}
IsCae(t) ==
    /\ Len(t) = 14
    /\ AllIn(SubSeq(t, 1, 5), Digit) /\ Ch(t, 6) = "."
    /\ AllIn(SubSeq(t, 7, 8), Digit) /\ Ch(t, 9) = "."
    /\ AllIn(SubSeq(t, 10, 11), Digit) /\ Ch(t, 12) = "."
    /\ AllIn(SubSeq(t, 13, 14), Digit)
\* \w+/?\w* (one slash at most, not in front)
IsSituacaoLoose(t) ==
    /\ t # "" /\ Ch(t, 1) \in WordCh
    /\ AllIn(t, WordCh \cup {"/"})
    /\ Cardinality({i \in 1..Len(t) : Ch(t, i) = "/"}) <= 1
\* \w+(?:/\w+)? filling a whole token
IsSituacao(t) == IsSituacaoLoose(t) /\ Ch(t, Len(t)) # "/"

\* \s+(ASSOC)\s+(\w+(?:/\w+)?)\s+ with the association at token k
ObraTailAt(line, T, k) ==
    /\ k + 1 <= Len(T)
    /\ Tok(line, T, k) \in Associacoes
    /\ IsSituacao(Tok(line, T, k + 1))
    /\ T[k + 1][2] < Len(line)

\* re_obra: code, optional ISWC, lazy title, association, situation, blank,
\* then optional type, national flag and date; not anchored at the end.
\* The ISWC is as long as the rest allows; the title stops before the first
\* association that is followed by a situation and a blank.  When no title
\* is left between the code or ISWC and the association, and three blanks
\* or more (two after an ISWC) separate them, the title is one of those blanks.
re_obra(line) ==
    LET start(i, e) == IF e = i THEN i ELSE SkipClass(line, e, WS)
        ks(T, n, i, e) ==
            {k \in 3..n : T[k - 1][2] >= start(i, e) /\ ObraTailAt(line, T, k)}
        blank(T, n, i, e) ==
            IF e = i THEN i - T[1][2] - 1 >= 3 /\ ObraTailAt(line, T, 2)
            ELSE /\ start(i, e) - e >= 2
                 /\ \E k \in 3..n : T[k][1] = start(i, e) /\ ObraTailAt(line, T, k)
        index(q, a, b, c, d) ==
            IF OptDateAt(line, d) > d THEN 8
            ELSE IF c > b THEN 7
            ELSE IF a > q THEN 6 ELSE 5
        nacional(q, a, b, c) == index(q, a, b, c, SkipClass(line, c, WS))
        spaced(q, a, b) == nacional(q, a, b, OptLitAt(line, b, Nacional))
        typed(q, a) == spaced(q, a, SkipClass(line, a, WS))
        last_index(q) == typed(q, OptLitAt(line, q, TiposObra))
        matched(T, i, e, s, K, k) ==
            [ok |-> TRUE,
             g1 |-> Tok(line, T, 1),
             g2 |-> IF e = i THEN NULL ELSE SubSeq(line, i, e - 1),
             g3 |-> IF K # {} THEN SubSeq(line, s, T[k - 1][2])
                    ELSE Ch(line, s - 2),
             lastindex |-> last_index(SkipClass(line, T[k + 1][2] + 1, WS))]
        chosen(T, n, i, e, s, K) ==
            matched(T, i, e, s, K,
                    IF K # {} THEN Min(K) ELSE CHOOSE t \in 2..n : T[t][1] = s)
        at(T, n, i, e) == chosen(T, n, i, e, start(i, e), ks(T, n, i, e))
        decided(T, n, i, good) ==
            IF good = {} /\ ks(T, n, i, i) = {} /\ ~blank(T, n, i, i) THEN NoMatch
            ELSE at(T, n, i, IF good # {} THEN Max(good) ELSE i)
        bounded(T, n, i, emax) ==
            decided(T, n, i, {e \in (i + 3)..emax :
                                 ks(T, n, i, e) # {} \/ blank(T, n, i, e)})
        coded(T, n, i) ==
            bounded(T, n, i, IF LitAt(line, i, "T-")
                             THEN SkipClass(line, i + 2, IswcCh) ELSE i)
        tested(T, n) ==
            IF n < 2 \/ T[1][1] # 1 \/ ~IsD5(Tok(line, T, 1)) THEN NoMatch
            ELSE coded(T, n, T[2][1])
        tokenised(T) == tested(T, Len(T))
    IN  tokenised(Tokens(line))

\* The tail of re_obra_simple from position a of s on.  Each operator gives
\* 0 when its part of the pattern cannot match up to the end of the line,
\* and otherwise the number of the last group that takes part (3 when none
\* of groups 4 to 8 does).  An optional part is taken whenever the rest can
\* still match, the longest situation first.

SimpleEndIndex(s, b, c, d, e) ==
    IF SkipClass(s, e, WS) # Len(s) + 1 THEN 0
    ELSE IF e > d THEN 8 ELSE IF c > b THEN 7 ELSE 3

SimpleEndDated(s, b, c, d) == SimpleEndIndex(s, b, c, d, OptDateAt(s, d))

SimpleEndNacional(s, b, c) == SimpleEndDated(s, b, c, SkipClass(s, c, WS))

\* \s*(SIM|NÃO|NAO)?\s*(date)?\s*$
SimpleEndAt(s, a) ==
    SimpleEndNacional(s, SkipClass(s, a, WS),
                      OptLitAt(s, SkipClass(s, a, WS), Nacional))

SimpleTypeTaken(s, a, take) ==
    IF take > 0 THEN Max({take, 6}) ELSE SimpleEndAt(s, a)

SimpleTypeTyped(s, a, b, t) ==
    SimpleTypeTaken(s, a, IF b > a /\ t > b THEN SimpleEndAt(s, t) ELSE 0)

\* (?:\s+(ORIGINAL|VERSAO))? and the end
SimpleTypeAt(s, a) ==
    SimpleTypeTyped(s, a, SkipClass(s, a, WS),
                    OptLitAt(s, SkipClass(s, a, WS), {"ORIGINAL", "VERSAO"}))

SimpleSitTaken(s, a, Q) ==
    IF Q # {} THEN Max({SimpleTypeAt(s, Max(Q)), 5}) ELSE SimpleTypeAt(s, a)

SimpleSitSpaced(s, a, b) ==
    SimpleSitTaken(s, a, {q \in (b + 1)..(Len(s) + 1) :
                             /\ b > a
                             /\ IsSituacaoLoose(SubSeq(s, b, q - 1))
                             /\ SimpleTypeAt(s, q) > 0})

\* (?:\s+(\w+/?\w*))? and what follows
SimpleSitAt(s, a) == SimpleSitSpaced(s, a, SkipClass(s, a, WS))

SimpleTailTaken(s, p, take) ==
    IF take > 0 THEN Max({take, 4}) ELSE SimpleSitAt(s, p)

SimpleTailAssoc(s, p, b, t) ==
    SimpleTailTaken(s, p, IF b > p /\ t > b THEN SimpleSitAt(s, t) ELSE 0)

\* (?:\s+(ASSOC))? and what follows
SimpleTailAt(s, p) ==
    SimpleTailAssoc(s, p, SkipClass(s, p, WS),
                    OptLitAt(s, SkipClass(s, p, WS), Associacoes))

ObraSimpleMatched(line, T, j, E) ==
    [ok |-> TRUE, g1 |-> Tok(line, T, 1), g2 |-> Tok(line, T, 2),
     g3 |-> SubSeq(line, j, E),
     lastindex |-> SimpleTailAt(line, E + 1)]

ObraSimpleTested(line, T) ==
    IF Len(T) < 3 \/ T[1][1] # 1 \/ ~IsD5(Tok(line, T, 1)) \/ ~IsIswc(Tok(line, T, 2))
    THEN NoMatch
    ELSE ObraSimpleMatched(line, T, T[3][1],
                           Min({e \in T[3][1]..Len(line) :
                                   SimpleTailAt(line, e + 1) > 0}))

\* re_obra_simple: code, ISWC, lazy title, then optional association,
\* situation, ORIGINAL/VERSAO, national flag and date up to the end of line.
\* The title is the shortest text after which the rest of the line is
\* made of those optional parts.
re_obra_simple(line) == ObraSimpleTested(line, Tokens(line))

\* \s+(LB|BL|BL/DU|DU|LB/DU)\s+(TIPO)?\s*(SIM|NÃO|NAO)?\s*(date)?\s*$ with the
\* situation at token k
NoIswcTailAt(line, T, k) ==
    /\ k <= Len(T)
    /\ Tok(line, T, k) \in SituacoesObra
    /\ LET q == T[k][2] + 1
           r == SkipClass(line, q, WS)
       IN  /\ r > q
           /\ SkipClass(line, OptTrailerAt(line, r, TiposObra), WS) = Len(line) + 1

\* re_obra_no_iswc: code, lazy title (group 2), optional association
\* (group 3), situation (group 4), then type, national flag and date up to
\* the end of line.  m is the last token of the title; m = 1 stands for a
\* title that is one of three or more blanks after the code.
re_obra_no_iswc(line) ==
    LET index(r, a, b, c, d) ==
            IF OptDateAt(line, d) > d THEN 7
            ELSE IF c > b THEN 6
            ELSE IF a > r THEN 5 ELSE 4
        nacional(r, a, b, c) == index(r, a, b, c, SkipClass(line, c, WS))
        spaced(r, a, b) == nacional(r, a, b, OptLitAt(line, b, Nacional))
        typed(r, a) == spaced(r, a, SkipClass(line, a, WS))
        last_index(r) == typed(r, OptLitAt(line, r, TiposObra))
        matched(T, assoc, m, k) ==
            [ok |-> TRUE, g1 |-> Tok(line, T, 1),
             g2 |-> IF m = 1 THEN Ch(line, T[2][1] - 2) ELSE Span(line, T, 2, m),
             g3 |-> IF m \in assoc THEN Tok(line, T, m + 1) ELSE NULL,
             lastindex |-> last_index(SkipClass(line, T[k][2] + 1, WS))]
        chosen(T, assoc, m) ==
            matched(T, assoc, m, IF m \in assoc THEN m + 2 ELSE m + 1)
        decided(T, n, plain, assoc, normal) ==
            IF n < 2 \/ T[1][1] # 1 \/ ~IsD5(Tok(line, T, 1)) \/ plain \cup assoc = {}
            THEN NoMatch
            ELSE chosen(T, assoc, IF normal # {} THEN Min(normal) ELSE 1)
        split_(T, n, plain, assoc) ==
            decided(T, n, plain, assoc, (plain \cup assoc) \ {1})
        ranged(T, n, first) ==
            split_(T, n,
                   {m \in first..(n - 1) : NoIswcTailAt(line, T, m + 1)},
                   {m \in first..(n - 2) : /\ Tok(line, T, m + 1) \in Associacoes
                                           /\ NoIswcTailAt(line, T, m + 2)})
        tested(T, n) ==
            ranged(T, n, IF n >= 2 /\ T[2][1] - T[1][2] - 1 >= 3 THEN 1 ELSE 2)
        tokenised(T) == tested(T, Len(T))
    IN  tokenised(Tokens(line))

\* \s+(CAE)\s+(ASSOC)\s+([A-Z]{1,2})\s+([\d.,]+) with the CAE at token c
ParticipanteTailAt(line, T, c) ==
    /\ c + 3 <= Len(T)
    /\ IsCae(Tok(line, T, c))
    /\ Tok(line, T, c + 1) \in Associacoes
    /\ IsCat(Tok(line, T, c + 2))
    /\ Ch(line, T[c + 3][1]) \in AmtCh

\* re_participante: code, lazy name, lazy pseudonym of two or more
\* characters of [A-Z\s.] starting with a letter, CAE, association, category,
\* share; not anchored at the end.  The name is the shortest text after which
\* a run of upper-case tokens leads to the CAE; the pseudonym starts at token
\* m (m = 2: the name is one of three or more blanks after the code).
re_participante(line) ==
    LET T == Tokens(line)
        n == Len(T)
        cae(m) == Min({c \in m..n : ~AllIn(Tok(line, T, c), NameCh)} \cup {n + 1})
        E3(m) == Max({T[m][1] + 1, T[cae(m) - 1][2]})
        first == IF n >= 2 /\ T[2][1] - T[1][2] - 1 >= 3 THEN 2 ELSE 3
        ms == {m \in first..n : /\ cae(m) > m
                                /\ ParticipanteTailAt(line, T, cae(m))
                                /\ E3(m) + 1 < T[cae(m)][1]}
    IN  IF n < 2 \/ T[1][1] # 1 \/ ~IsD4(Tok(line, T, 1)) \/ ms = {} THEN NoMatch
        ELSE LET m == IF ms \ {2} # {} THEN Min(ms \ {2}) ELSE 2
                 c == cae(m)
             IN  [ok |-> TRUE,
                  g1 |-> Tok(line, T, 1),
                  g2 |-> IF m = 2 THEN Ch(line, T[2][1] - 2) ELSE Span(line, T, 2, m - 1),
                  g3 |-> SubSeq(line, T[m][1], E3(m)),
                  g4 |-> Tok(line, T, c),
                  g5 |-> Tok(line, T, c + 1),
                  g6 |-> Tok(line, T, c + 2),
                  g7 |-> SubSeq(line, T[c + 3][1],
                                SkipClass(line, T[c + 3][1], AmtCh) - 1)]

\* (SIM|NÃO|NAO)\s*([X\s]*)$ at position a of s
NacionalEndAt(s, a) ==
    LET b == OptLitAt(s, a, Nacional)
    IN  b > a /\ AllIn(From(s, b), XCh)

\* re_gravacao: code, ISRC, situation, lazy title, national flag, X marks.
\* The title ends before token k (k = 4: the title is one of three or more
\* blanks after the situation).
re_gravacao(line) ==
    LET T == Tokens(line)
        n == Len(T)
        first == IF n >= 4 /\ T[4][1] - T[3][2] - 1 >= 3 THEN 4 ELSE 5
        ks == {k \in first..n : NacionalEndAt(line, T[k][1])}
    IN  IF \/ n < 4 \/ T[1][1] # 1
           \/ ~IsD5(Tok(line, T, 1))
           \/ ~IsIsrcCode(Tok(line, T, 2))
           \/ Tok(line, T, 3) \notin SituacoesGravacao
           \/ ks = {}
        THEN NoMatch
        ELSE LET k == IF ks \ {4} # {} THEN Min(ks \ {4}) ELSE 4
             IN  [ok |-> TRUE, g1 |-> Tok(line, T, 1), g2 |-> Tok(line, T, 2),
                  g3 |-> Tok(line, T, 3),
                  g4 |-> IF k = 4 THEN Ch(line, T[4][1] - 2)
                         ELSE Span(line, T, 4, k - 1)]

\* re.match(r"(LIBERADO|BLOQUEADO|PENDENTE)\s+(.+?)(?:\s+(SIM|NÃO|NAO))?\s*([X\s]*)$", rest),
\* rest joined with single blanks
sit_match(rest) ==
    LET T == Tokens(rest)
        n == Len(T)
        TailAt2(p) ==
            LET a == SkipClass(rest, p, WS)
            IN  \/ AllIn(From(rest, p), XCh)
                \/ a > p /\ NacionalEndAt(rest, a)
    IN  IF n < 2 \/ T[1][1] # 1 \/ Tok(rest, T, 1) \notin SituacoesGravacao THEN NoMatch
        ELSE [ok |-> TRUE, g1 |-> Tok(rest, T, 1),
              g2 |-> SubSeq(rest, T[2][1],
                            Min({e \in T[2][1]..Len(rest) : TailAt2(e + 1)}))]

\* \s+([A-Z]{1,2})\s+([A-Z]{1,2})\s+(ASSOC)\s+([\d.,]+) with the category at token c
ConexoTailAt(line, T, c) ==
    /\ c + 3 <= Len(T)
    /\ IsCat(Tok(line, T, c))
    /\ IsCat(Tok(line, T, c + 1))
    /\ Tok(line, T, c + 2) \in Associacoes
    /\ Ch(line, T[c + 3][1]) \in AmtCh

\* re_participante_conexo: code, lazy name, two blanks or more, lazy
\* pseudonym of [A-Z\s.] starting with a letter, category, subcategory,
\* association, share; not anchored at the end.  The pseudonym starts at
\* token m (m = 2: the name is one of four or more blanks after the code).
re_participante_conexo(line) ==
    LET T == Tokens(line)
        n == Len(T)
        cs(m) == {c \in (m + 1)..n :
                     /\ \A t \in m..(c - 1) : AllIn(Tok(line, T, t), NameCh)
                     /\ ConexoTailAt(line, T, c)}
        ms == {m \in 2..n : /\ T[m][1] - T[m - 1][2] - 1 >= (IF m = 2 THEN 4 ELSE 2)
                            /\ Ch(line, T[m][1]) \in UpperAZ
                            /\ cs(m) # {}}
    IN  IF n < 2 \/ T[1][1] # 1 \/ ~IsD4(Tok(line, T, 1)) \/ ms = {} THEN NoMatch
        ELSE LET m == IF ms \ {2} # {} THEN Min(ms \ {2}) ELSE 2
                 c == Min(cs(m))
             IN  [ok |-> TRUE,
                  g1 |-> Tok(line, T, 1),
                  g2 |-> IF m = 2 THEN Ch(line, T[2][1] - 3) ELSE Span(line, T, 2, m - 1),
                  g3 |-> Span(line, T, m, c - 1),
                  g4 |-> Tok(line, T, c),
                  g5 |-> Tok(line, T, c + 1),
                  g6 |-> Tok(line, T, c + 2),
                  g7 |-> SubSeq(line, T[c + 3][1],
                                SkipClass(line, T[c + 3][1], AmtCh) - 1)]

\* s.split(a)[0].split(b)[0]...: s up to the first occurrence of a keyword
BeforeFirst(s, kws) ==
    LET ps == {i \in 1..Len(s) : \E kw \in kws : LitAt(s, i, kw)}
    IN  IF ps = {} THEN s ELSE SubSeq(s, 1, Min(ps) - 1)

\* the tokens of ws before the first one that is in stop
RECURSIVE TakeUntil(_, _)
TakeUntil(ws, stop) ==
    IF ws = << >> \/ Head(ws) \in stop THEN << >>
    ELSE << Head(ws) >> \o TakeUntil(Tail(ws), stop)

\* re.match(r"^\d{5,}", line)
starts_with_code(line) == Len(line) >= 5 /\ AllIn(SubSeq(line, 1, 5), Digit)

\* re.match(r"(T-[\d.\-]+)\s+(.*)", rest_text), rest_text joined with single blanks
iswc_m(rest_text) ==
    LET T == Tokens(rest_text)
    IN  IF Len(T) >= 2 /\ IsIswc(Tok(rest_text, T, 1))
        THEN [ok |-> TRUE, g1 |-> Tok(rest_text, T, 1), g2 |-> From(rest_text, T[2][1])]
        ELSE NoMatch

(***************************************************************************)
(* 6. _extract_relatorio_analitico_autoral                                 *)
(*    (current_isrc stands for the extractor's current_iswc)               *)
(***************************************************************************)
AutoralFurnitureKeywords ==
    {"RELATÓRIO ANALÍTICO", "ASSOCIAÇÃO:", "TITULAR:", "CÓD. OBRA", "CONTRATO",
     "CÓD. ECAD", "CÓDIGO", "NOME DO TITULAR", "* SITUAÇÃO",
     "CLASSIFICAÇÃO DA OBRA", "Pag ", "ECAD.Tec"}

\* "Ignora cabecalhos repetidos"
autoral_furniture(line) == \E kw \in AutoralFurnitureKeywords : Contains(line, kw)

\* re_obra, then re_obra_simple, then re_obra_no_iswc
autoral_obra_match(line) ==
    LET cascade(obra, simple) ==
            IF obra.ok THEN obra
            ELSE IF simple.ok THEN simple
            ELSE re_obra_no_iswc(line)
    IN  cascade(re_obra(line), re_obra_simple(line))

\* the participant row of the fallback path (no arquivo_origem key)
autoral_fallback_row(ctx, st, m) ==
    [titular |-> ctx.titular,
     documento_origem |-> "RELATORIO_ANALITICO_AUTORAL",
     obra_referencia |-> st.obra_titulo,
     obra_codigo |-> st.obra_codigo,
     isrc_iswc |-> st.isrc,
     cod_ecad_participante |-> m.g1,
     nome_participante |-> clean_text(m.g2),
     pseudonimo_participante |-> clean_text(m.g3),
     cae_participante |-> m.g4,
     associacao_participante |-> m.g5,
     categoria |-> m.g6,
     percentual_rateio |-> clean_monetary_value(m.g7),
     tipo_extracao |-> "RELATORIO_ANALITICO_AUTORAL"]

\* the participant row of the main path
autoral_row(ctx, st, m) ==
    [arquivo_origem |-> ctx.original_filename] @@ autoral_fallback_row(ctx, st, m)

\* what the patterns of the autoral extractor find in a stripped line
autoral_patterns(line) ==
    LET found(parts) ==
        [furniture |-> autoral_furniture(line),
         obra_match |-> autoral_obra_match(line),
         starts_with_code |-> starts_with_code(line),
         parts |-> parts,
         iswc_m |-> IF Len(parts) >= 2 THEN iswc_m(JoinSp(Tail(parts))) ELSE NoMatch,
         titulo_tokens |-> IF Len(parts) >= 2
                           THEN TakeUntil(Tail(parts),
                                          {"ABRAMUS", "UBC", "SBACEM", "SOCINPRO", "LB",
                                           "BL", "DU", "ORIGINAL", "VERSAO", "SIM",
                                           "NÃO", "NAO"})
                           ELSE << >>,
         part_match |-> re_participante(line)]
    IN  found(split(line))

AutoralPatterns == [line \in {Strip(l) : l \in KnownLines} |-> autoral_patterns(line)]

\* "if obra_match:" (517-529)
autoral_header(st, m) ==
    IF m.lastindex >= 3
    THEN [st EXCEPT !.obra_codigo = m.g1,
                    !.isrc = IF m.g2 # NULL /\ m.g2 # "" THEN m.g2 ELSE NULL,
                    !.obra_titulo = clean_text(m.g3),
                    !.branch = "obra_header"]
    ELSE [st EXCEPT !.obra_codigo = m.g1,
                    !.obra_titulo = clean_text(m.g2),
                    !.branch = "obra_header"]

\* "Tenta match por fallback: linha que comeca com codigo numerico longo"
\* (532-576), for a line with two parts or more
autoral_fallback(ctx, st, p) ==
    IF p.iswc_m.ok
    THEN [st EXCEPT !.obra_codigo = p.parts[1],
                    !.isrc = p.iswc_m.g1,
                    !.obra_titulo =
                        clean_text(Strip(BeforeFirst(p.iswc_m.g2,
                                       {"ABRAMUS", "UBC", "SBACEM", "SOCINPRO"}))),
                    !.branch = "fallback_iswc"]
    ELSE IF p.part_match.ok
    THEN [st EXCEPT !.rows = Append(@, autoral_fallback_row(ctx, st, p.part_match)),
                    !.branch = "fallback_participante"]
    ELSE [st EXCEPT !.obra_codigo = p.parts[1],
                    !.isrc = NULL,
                    !.obra_titulo = IF p.titulo_tokens # << >>
                                    THEN clean_text(JoinSp(p.titulo_tokens)) ELSE NULL,
                    !.branch = "fallback_obra"]

\* the body of "for line in lines" for the raw line
autoral_line(ctx, st, raw) ==
    LET line == Strip(raw)
        branches(p) ==
            IF line = "" THEN [st EXCEPT !.branch = "blank"]
            ELSE IF p.furniture THEN [st EXCEPT !.branch = "furniture"]
            ELSE IF p.obra_match.ok THEN autoral_header(st, p.obra_match)
            ELSE IF p.starts_with_code /\ Len(p.parts) >= 2
            THEN autoral_fallback(ctx, st, p)
            ELSE IF p.part_match.ok
            THEN [st EXCEPT !.rows = Append(@, autoral_row(ctx, st, p.part_match)),
                            !.branch = "participante"]
            ELSE [st EXCEPT !.branch = "no_match"]
    IN  branches(AutoralPatterns[line])

AnaliticoState ==
    [obra_codigo |-> current_obra_codigo, obra_titulo |-> current_obra_titulo,
     isrc |-> current_isrc, situacao |-> current_situacao,
     complemento |-> current_complemento, rows |-> rows, branch |-> "no_match"]

\* entry of the page loop: "lines = extract_page_lines(page)"
AutoralNextPage ==
    /\ \/ pc = "autoral" /\ page_idx = 0
       \/ pc = "autoral_lines" /\ line_idx > Len(extract_page_lines(doc[page_idx]))
    /\ page_idx < Len(doc)
    /\ pc' = "autoral_lines"
    /\ page_idx' = page_idx + 1
    /\ line_idx' = 1
    /\ UNCHANGED << layout, tipo, original_filename, header_info, doc, skip_header,
                    current_obra_codigo, current_obra_titulo, current_isrc,
                    current_situacao, current_complemento, rows, result, trace >>
    /\ UNCHANGED << error, globals, controller, utility >>

\* one line of the current page
AutoralLine ==
    /\ pc = "autoral_lines"
    /\ line_idx <= Len(extract_page_lines(doc[page_idx]))
    /\ \E st \in {autoral_line(Context, AnaliticoState,
                              extract_page_lines(doc[page_idx])[line_idx])} :
           /\ current_obra_codigo' = st.obra_codigo
           /\ current_obra_titulo' = st.obra_titulo
           /\ current_isrc' = st.isrc
           /\ rows' = st.rows
           /\ trace' = Append(trace, [page |-> page_idx, idx |-> line_idx,
                                      branch |-> st.branch,
                                      nrows |-> Len(st.rows)])
    /\ line_idx' = line_idx + 1
    /\ UNCHANGED << pc, layout, tipo, original_filename, header_info, doc, page_idx,
                    skip_header, current_situacao, current_complemento, result >>
    /\ UNCHANGED << error, globals, controller, utility >>

\* after the last page: empty frame, or the normalized frame of the rows
AutoralReturn ==
    /\ \/ pc = "autoral" /\ page_idx = 0
       \/ pc = "autoral_lines" /\ line_idx > Len(extract_page_lines(doc[page_idx]))
    /\ page_idx = Len(doc)
    /\ pc' = "done"
    /\ result' = IF rows = << >> THEN EmptyFrame
                 ELSE normalize_to_master_schema(DataFrame(rows),
                                                 "RELATORIO_ANALITICO_AUTORAL",
                                                 header_info.titular, NULL)
    /\ UNCHANGED << layout, tipo, original_filename, header_info,
                    doc, page_idx, line_idx, skip_header, current_obra_codigo,
                    current_obra_titulo, current_isrc, current_situacao,
                    current_complemento, rows, trace >>
    /\ master_schema_columns' =
           IF rows = << >> THEN master_schema_columns
           ELSE schema_after_normalize(master_schema_columns, result'.columns)
    /\ UNCHANGED << error, layout_signatures, controller, utility >>

NextAutoral == AutoralNextPage \/ AutoralLine \/ AutoralReturn

(***************************************************************************)
(* 7. _extract_relatorio_analitico_conexo                                  *)
(*    (current_obra_codigo and current_obra_titulo stand for the           *)
(*    extractor's current_gravacao_codigo and current_gravacao_titulo)     *)
(***************************************************************************)
ConexoFurnitureKeywords ==
    {"RELATÓRIO ANALÍTICO", "ASSOCIAÇÃO:", "TITULAR:", "CÓD. ECAD", "CLASSIFICAÇÃO",
     "PSEUDÔNIMO", "CAT.", "SUBCAT.", "PART. (%)", "Pag ", "ECAD.Tec",
     "SUBCATEGORIA:", "ISRC/GRA", "SITUACAO", "RÓTULO"}

\* "Ignora cabecalhos"
conexo_furniture(line) == \E kw \in ConexoFurnitureKeywords : Contains(line, kw)

\* the participant row of the fallback path (no arquivo_origem key)
conexo_fallback_row(ctx, st, m) ==
    [titular |-> ctx.titular,
     documento_origem |-> "RELATORIO_ANALITICO_CONEXO",
     obra_referencia |-> st.obra_titulo,
     obra_codigo |-> st.obra_codigo,
     isrc_iswc |-> st.isrc,
     situacao |-> st.situacao,
     complemento_titulo |-> st.complemento,
     cod_ecad_participante |-> m.g1,
     nome_participante |-> clean_text(m.g2),
     pseudonimo_participante |-> clean_text(m.g3),
     categoria |-> m.g4,
     subcategoria |-> m.g5,
     associacao_participante |-> m.g6,
     percentual_rateio |-> clean_monetary_value(m.g7),
     tipo_extracao |-> "RELATORIO_ANALITICO_CONEXO"]

\* the participant row of the main path
conexo_row(ctx, st, m) ==
    [arquivo_origem |-> ctx.original_filename] @@ conexo_fallback_row(ctx, st, m)

\* what the patterns of the conexo extractor find in a stripped line
conexo_patterns(line) ==
    LET found(parts) ==
        [furniture |-> conexo_furniture(line),
         grav_match |-> re_gravacao(line),
         starts_with_code |-> starts_with_code(line),
         starts_with_digit |-> line # "" /\ Ch(line, 1) \in Digit,
         parts |-> parts,
         isrc_candidate |-> IF Len(parts) >= 2 /\ IsIsrcCode(parts[2])
                            THEN parts[2] ELSE NULL,
         rest |-> IF Len(parts) >= 2 THEN JoinSp(SubSeq(parts, 3, Len(parts))) ELSE "",
         sit_match |-> IF Len(parts) >= 2
                       THEN sit_match(JoinSp(SubSeq(parts, 3, Len(parts))))
                       ELSE NoMatch,
         part_match |-> re_participante_conexo(line)]
    IN  found(split(line))

ConexoPatterns == [line \in {Strip(l) : l \in KnownLines} |-> conexo_patterns(line)]

\* variant: the recording header leaves the complement as it was
conexo_header_keeps_complemento(st, m) ==
    [st EXCEPT !.obra_codigo = m.g1,
               !.isrc = m.g2,
               !.situacao = m.g3,
               !.obra_titulo = clean_text(m.g4),
               !.branch = "gravacao_header"]

\* "if grav_match:" (684-696)
conexo_header(st, m) ==
    [st EXCEPT !.obra_codigo = m.g1,
               !.isrc = m.g2,
               !.situacao = m.g3,
               !.obra_titulo = clean_text(m.g4),
               !.complemento = NULL,
               !.branch = "gravacao_header"]

\* "Fallback: linha comecando com codigo numerico + ISRC" (704-719)
conexo_fallback_header(st, p) ==
    [st EXCEPT !.obra_codigo = p.parts[1],
               !.isrc = p.isrc_candidate,
               !.situacao = IF p.sit_match.ok THEN p.sit_match.g1 ELSE @,
               !.obra_titulo = IF p.sit_match.ok THEN clean_text(p.sit_match.g2)
                               ELSE clean_text(p.rest),
               !.complemento = NULL,
               !.branch = "fallback_gravacao"]

\* "Linha complementar" (744-751)
is_complemento(st, p) ==
    /\ st.obra_codigo # NULL /\ st.obra_codigo # ""
    /\ ~p.starts_with_digit
    /\ Len(p.parts) <= 5
    /\ ~p.part_match.ok

\* the body of "for line in lines" for the raw line
conexo_line(ctx, st, raw) ==
    LET line == Strip(raw)
        branches(p, fallback) ==
            IF line = "" THEN [st EXCEPT !.branch = "blank"]
            ELSE IF p.furniture THEN [st EXCEPT !.branch = "furniture"]
            ELSE IF p.grav_match.ok THEN conexo_header(st, p.grav_match)
            ELSE IF fallback /\ p.isrc_candidate # NULL
            THEN conexo_fallback_header(st, p)
            ELSE IF fallback /\ p.part_match.ok
            THEN [st EXCEPT !.rows = Append(@, conexo_fallback_row(ctx, st,
                                                                  p.part_match)),
                            !.branch = "fallback_participante"]
            ELSE IF is_complemento(st, p)
            THEN [st EXCEPT !.complemento = clean_text(line), !.branch = "complemento"]
            ELSE IF p.part_match.ok
            THEN [st EXCEPT !.rows = Append(@, conexo_row(ctx, st, p.part_match)),
                            !.branch = "participante"]
            ELSE [st EXCEPT !.branch = "no_match"]
        tested(p) == branches(p, p.starts_with_code /\ Len(p.parts) >= 2)
    IN  tested(ConexoPatterns[line])

\* entry of the page loop: "lines = extract_page_lines(page)"
ConexoNextPage ==
    /\ \/ pc = "conexo" /\ page_idx = 0
       \/ pc = "conexo_lines" /\ line_idx > Len(extract_page_lines(doc[page_idx]))
    /\ page_idx < Len(doc)
    /\ pc' = "conexo_lines"
    /\ page_idx' = page_idx + 1
    /\ line_idx' = 1
    /\ UNCHANGED << layout, tipo, original_filename, header_info, doc, skip_header,
                    current_obra_codigo, current_obra_titulo, current_isrc,
                    current_situacao, current_complemento, rows, result, trace >>
    /\ UNCHANGED << error, globals, controller, utility >>

\* one line of the current page
ConexoLine ==
    /\ pc = "conexo_lines"
    /\ line_idx <= Len(extract_page_lines(doc[page_idx]))
    /\ \E st \in {conexo_line(Context, AnaliticoState,
                             extract_page_lines(doc[page_idx])[line_idx])} :
           /\ current_obra_codigo' = st.obra_codigo
           /\ current_obra_titulo' = st.obra_titulo
           /\ current_isrc' = st.isrc
           /\ current_situacao' = st.situacao
           /\ current_complemento' = st.complemento
           /\ rows' = st.rows
           /\ trace' = Append(trace, [page |-> page_idx, idx |-> line_idx,
                                      branch |-> st.branch,
                                      nrows |-> Len(st.rows)])
    /\ line_idx' = line_idx + 1
    /\ UNCHANGED << pc, layout, tipo, original_filename, header_info, doc, page_idx,
                    skip_header, result >>
    /\ UNCHANGED << error, globals, controller, utility >>

\* after the last page: empty frame, or the normalized frame of the rows
ConexoReturn ==
    /\ \/ pc = "conexo" /\ page_idx = 0
       \/ pc = "conexo_lines" /\ line_idx > Len(extract_page_lines(doc[page_idx]))
    /\ page_idx = Len(doc)
    /\ pc' = "done"
    /\ result' = IF rows = << >> THEN EmptyFrame
                 ELSE normalize_to_master_schema(DataFrame(rows),
                                                 "RELATORIO_ANALITICO_CONEXO",
                                                 header_info.titular, NULL)
    /\ UNCHANGED << layout, tipo, original_filename, header_info,
                    doc, page_idx, line_idx, skip_header, current_obra_codigo,
                    current_obra_titulo, current_isrc, current_situacao,
                    current_complemento, rows, trace >>
    /\ master_schema_columns' =
           IF rows = << >> THEN master_schema_columns
           ELSE schema_after_normalize(master_schema_columns, result'.columns)
    /\ UNCHANGED << error, layout_signatures, controller, utility >>

NextConexo == ConexoNextPage \/ ConexoLine \/ ConexoReturn

NextAnalitico == NextAutoral \/ NextConexo

(***************************************************************************)
(* Documents                                                               *)
(***************************************************************************)

\* all sequences over S of length at most n
SeqsUpTo(S, n) == UNION {[1..k -> S] : k \in 0..n}

\* marker standing for a page boundary in a stream of lines
PageBreak == "\f"

\* the pages of a stream of lines: one page more than it has page breaks
RECURSIVE SplitPages(_)
SplitPages(stream) ==
    LET breaks == {i \in 1..Len(stream) : stream[i] = PageBreak}
    IN  IF breaks = {} THEN << stream >>
        ELSE << SubSeq(stream, 1, Min(breaks) - 1) >>
             \o SplitPages(SubSeq(stream, Min(breaks) + 1, Len(stream)))

\* the documents whose lines are drawn from catalogue, n lines and page
\* breaks at most, and the document without pages
Documents(catalogue, n) ==
    {SplitPages(s) : s \in SeqsUpTo(catalogue \cup {PageBreak}, n)} \cup {<< >>}

\* state at the entry of a call on document d; t is the layout tag
ExtractorEntry(entry, d, t) ==
    /\ pc = entry
    /\ layout = t
    /\ tipo = t
    /\ original_filename = "extrato.pdf"
    /\ header_info = [titular |-> NULL, periodo_distribuicao |-> NULL]
    /\ doc = d
    /\ page_idx = 0
    /\ line_idx = 0
    /\ skip_header = TRUE
    /\ current_obra_codigo = NULL
    /\ current_obra_titulo = NULL
    /\ current_isrc = NULL
    /\ current_situacao = NULL
    /\ current_complemento = NULL
    /\ rows = << >>
    /\ result = [columns |-> << >>, records |-> << >>]
    /\ trace = << >>
    /\ error = NULL
    /\ layout_signatures = SignatureNames(LAYOUT_SIGNATURES)
    /\ master_schema_columns = MASTER_SCHEMA_COLUMNS
    /\ job_id = NULL
    /\ jobs = << >>
    /\ files = {}
    /\ argument = NULL
    /\ returned = NULL
    /\ suspended = << >>

(***************************************************************************)
(* identify_layout on the first page of a document                         *)
(***************************************************************************)

\* layout = identify_layout(pdf_path)
IdentifyLayout ==
    /\ pc = "identify"
    /\ layout' = identify_layout(extract_first_page_text(doc))
    /\ pc' = "identified"
    /\ UNCHANGED << tipo, original_filename, header_info, doc, page_idx,
                    line_idx, skip_header, current_obra_codigo,
                    current_obra_titulo, current_isrc, current_situacao,
                    current_complemento, rows, result, trace >>
    /\ layout_signatures' = signatures_after_identify(layout_signatures)
    /\ UNCHANGED << error, master_schema_columns, controller, utility >>

NextIdentify == IdentifyLayout

MaxFirstPageLines == 3

IdentifyCatalogue ==
    {"sigAutoral", "sigConexo", "sigDigitais", "kwTitular", "kwExecucao",
     "kwPrescritos", "kwPrescritiveis", "other"}

\* documents of one page, and the document without pages
InitIdentify ==
    \E d \in {<< p >> : p \in SeqsUpTo(IdentifyCatalogue, MaxFirstPageLines)}
             \cup {<< >>} :
        ExtractorEntry("identify", d, NULL)

SpecIdentify == InitIdentify /\ [][NextIdentify]_vars

\* the positions in LAYOUT_SIGNATURES of the signatures all of whose keywords
\* are substrings of the upper-cased first-page text
Matching ==
    LET text_upper == Upper(extract_first_page_text(doc))
    IN  {i \in 1..Len(LAYOUT_SIGNATURES) :
            \A k \in 1..Len(LAYOUT_SIGNATURES[i].keywords) :
                Contains(text_upper, LAYOUT_SIGNATURES[i].keywords[k])}

\* C1: identify_layout returns the name of a matching signature that no
\* matching signature precedes, a signature preceding another when its
\* priority is higher or when the priorities are equal and it is declared
\* earlier; it returns nothing when no signature matches.
C1_FirstMatchByPriority ==
    pc = "identified" =>
        IF Matching = {} THEN layout = NULL
        ELSE \E i \in Matching :
                /\ layout = LAYOUT_SIGNATURES[i].name
                /\ \A j \in Matching :
                      \/ LAYOUT_SIGNATURES[j].priority < LAYOUT_SIGNATURES[i].priority
                      \/ /\ LAYOUT_SIGNATURES[j].priority = LAYOUT_SIGNATURES[i].priority
                         /\ j >= i

\* C1 witness: a text matched by signatures of different priorities and by
\* two signatures of equal priority has been identified
C1_Witness ==
    /\ pc = "identified"
    /\ layout # NULL
    /\ \E i, j \in Matching :
          LAYOUT_SIGNATURES[i].priority > LAYOUT_SIGNATURES[j].priority
    /\ \E i, j \in Matching :
          i # j /\ LAYOUT_SIGNATURES[i].priority = LAYOUT_SIGNATURES[j].priority

(***************************************************************************)
(* _extract_demonstrativo_padrao on documents of a few lines               *)
(***************************************************************************)

MaxFillLen == 6

FillCatalogue == {"colhdr", "headerA", "headerB", "data"}

InitFill ==
    \E d \in Documents(FillCatalogue, MaxFillLen) :
        ExtractorEntry("padrao", d, "DEMONSTRATIVO_TITULAR")

SpecFill == InitFill /\ [][NextPadrao]_vars

\* name and text of the line the k-th entry of the trace is about
NameAt(k) == doc[trace[k].page][trace[k].idx]
LineAt(k) == Strip(LineText[NameAt(k)])

\* the entry of the trace at which the r-th row was appended
EmittedAt(r) ==
    CHOOSE k \in 1..Len(trace) :
        trace[k].nrows = r /\ (IF k = 1 THEN 0 ELSE trace[k - 1].nrows) = r - 1

HeaderBranches == {"obra_header", "obra_header_simple"}

\* the last entry before the k-th that a work header took (0 when none)
LastHeaderBefore(k) ==
    LET H == {h \in 1..(k - 1) : trace[h].branch \in HeaderBranches}
    IN  IF H = {} THEN 0 ELSE Max(H)

\* code and title printed on the work-header lines
WorkHeaderFields ==
    [headerA |-> [codigo |-> "00012345", titulo |-> "SOME WORK TITLE"],
     headerB |-> [codigo |-> "00054321", titulo |-> "OTHER"],
     headerIsrc |-> [codigo |-> "00012345", titulo |-> "SOME ISRC BR-ABC-12-12345"]]

MaxSkipLen == 5

SkipCatalogue == {"colhdr", "banner", "headerA", "data", "isrc"}

InitSkip ==
    \E d \in Documents(SkipCatalogue, MaxSkipLen) :
        ExtractorEntry("padrao", d, "DEMONSTRATIVO_TITULAR")

SpecSkip == InitSkip /\ [][NextPadrao]_vars

MaxIsrcLen == 4

IsrcCatalogue ==
    {"colhdr", "isrc", "isrcShort", "dataIsrc", "dataBare", "headerIsrc",
     "headerA", "data"}

InitIsrc ==
    \E d \in Documents(IsrcCatalogue, MaxIsrcLen) :
        ExtractorEntry("padrao", d, "DEMONSTRATIVO_TITULAR")

SpecIsrc == InitIsrc /\ [][NextPadrao]_vars

MaxCascadeLen == 4

CascadeCatalogue ==
    {"colhdr", "headerA", "headerData", "data", "dataBoth", "dataDigital"}

InitCascade ==
    \E d \in Documents(CascadeCatalogue, MaxCascadeLen) :
        ExtractorEntry("padrao", d, "DEMONSTRATIVO_TITULAR")

SpecCascade == InitCascade /\ [][NextPadrao]_vars

MaxWindowLen == 5

WindowCatalogue == {"colhdr", "data", "dataPadded", "isrc", "other"}

InitWindow ==
    \E d \in Documents(WindowCatalogue, MaxWindowLen) :
        ExtractorEntry("padrao", d, "DEMONSTRATIVO_TITULAR")

SpecWindow == InitWindow /\ [][NextPadrao]_vars

Last(s) == s[Len(s)]

\* a step that reads one line of the current page
LineStep == pc = "padrao_lines" /\ line_idx' = line_idx + 1

\* name and stripped text of the line a LineStep reads
CurrentName == doc[page_idx][line_idx]
CurrentLine == Strip(LineText[CurrentName])

\* the line a LineStep reads is neither discarded as blank or by the skip
\* band nor ignored as banner or page furniture
ReachesMatching ==
    /\ ~skip_header
    /\ CurrentLine # ""
    /\ ~LinePatterns[CurrentLine].banner
    /\ ~LinePatterns[CurrentLine].furniture

\* the work code, the work title and the pending ISRC stay as they are
ContextUnchanged ==
    /\ current_obra_codigo' = current_obra_codigo
    /\ current_obra_titulo' = current_obra_titulo
    /\ current_isrc' = current_isrc

\* C3: a line with the shape of a work header that reaches the matching
\* stage sets the current work code and title from its text, clears the
\* pending ISRC and is consumed by the work-header branch without a row.
C3_HeaderConsumed ==
    [][(LineStep /\ ReachesMatching /\ CurrentName \in DOMAIN WorkHeaderFields)
          => /\ current_obra_codigo' = WorkHeaderFields[CurrentName].codigo
             /\ current_obra_titulo' = WorkHeaderFields[CurrentName].titulo
             /\ current_isrc' = NULL
             /\ rows' = rows
             /\ Last(trace').branch = "obra_header"]_vars

\* C3 witness: a work header was consumed right after a code-only line had
\* left an ISRC pending, and a work header carrying a labelled code was
\* consumed; no ISRC is pending afterwards
C3_Witness ==
    /\ Len(trace) >= 3
    /\ trace[Len(trace) - 2].branch = "isrc_only"
    /\ trace[Len(trace) - 1].branch = "obra_header"
    /\ NameAt(Len(trace) - 1) = "headerA"
    /\ trace[Len(trace)].branch = "obra_header"
    /\ NameAt(Len(trace)) = "headerIsrc"
    /\ current_isrc = NULL
    /\ current_obra_titulo = "SOME ISRC BR-ABC-12-12345"
    /\ rows = << >>

\* C4 (as claimed): a line is taken as a work header by the looser pattern
\* only when its remainder has a header shape and no data marker, and no
\* line that matches a data-line pattern is taken as a work header.
C4_NoDataLineAsHeader ==
    \A k \in 1..Len(trace) :
        trace[k].branch \in HeaderBranches =>
            /\ ~LinePatterns[LineAt(k)].std_match.ok
            /\ ~LinePatterns[LineAt(k)].digital_match.ok
            /\ (~LinePatterns[LineAt(k)].obra_match.ok =>
                   /\ ~LinePatterns[LineAt(k)].data_marker
                   /\ \/ LinePatterns[LineAt(k)].title_match.ok
                      \/ LinePatterns[LineAt(k)].perc_match)

ColumnHeaderNames == {"colhdr"}
BannerNames == {"banner"}

\* C5: every page starts in skip mode; in skip mode a line emits no row and
\* changes neither code, title nor pending ISRC, and skip mode ends exactly
\* on a column-header line; out of skip mode a banner line restores skip
\* mode and changes nothing else.
C5_SkipBand ==
    [][/\ (page_idx' # page_idx => skip_header')
       /\ (LineStep /\ skip_header
              => /\ rows' = rows
                 /\ ContextUnchanged
                 /\ (skip_header' <=> CurrentName \notin ColumnHeaderNames))
       /\ (LineStep /\ ~skip_header /\ CurrentName \in BannerNames
              => skip_header' /\ rows' = rows /\ ContextUnchanged)]_vars

\* C5 witness: a banner line restored skip mode and the data line after it
\* was discarded; the second page started in skip mode and its work-header
\* line was discarded: no row, no work code
C5_Witness ==
    /\ pc = "done"
    /\ doc = << << "colhdr", "banner", "data" >>, << "headerA" >> >>
    /\ trace[2].branch = "banner"
    /\ trace[3].branch = "skipped"
    /\ trace[4].page = 2 /\ trace[4].branch = "skipped"
    /\ rows = << >>
    /\ current_obra_codigo = NULL

\* the record the page of the sample yields
OneRecordOfSample ==
    /\ Len(result.records) = 1
    /\ result.records[1]["obra_referencia"] = "SOME WORK TITLE"
    /\ result.records[1]["periodo_inicial"] = "06/2024"
    /\ result.records[1]["periodo_final"] = "08/2024"

\* C6 (as claimed): the page made of the work-header line and the data line
\* yields exactly one record, with the header's title and the period bounds.
C6_HeaderThenData ==
    (pc = "done" /\ doc = << << "headerA", "data" >> >>) => OneRecordOfSample

\* C6 (amended): the page made of a column-header line, the work-header line
\* and the data line yields exactly one record, with the header's cleaned
\* title as obra_referencia and the bounds of the data line's period as
\* periodo_inicial and periodo_final.
C6_ColumnHeaderThenHeaderThenData ==
    (pc = "done" /\ doc = << << "colhdr", "headerA", "data" >> >>)
        => OneRecordOfSample

\* C6 witness: the extractor has returned on that page with one record
C6_Witness ==
    /\ pc = "done"
    /\ doc = << << "colhdr", "headerA", "data" >> >>
    /\ Len(result.records) = 1
    /\ result.records[1]["obra_codigo"] = "00012345"

\* the code an own-position scan finds for line i of lines: the first code
\* in ascending order among the two lines before and the two lines after
OwnWindowCode(lines, i) ==
    LET W == {j \in (i - 2)..(i + 2) :
                 /\ j >= 1 /\ j <= Len(lines) /\ j # i
                 /\ LineIsrc[lines[j]] # NULL}
    IN  IF W = {} THEN NULL ELSE LineIsrc[lines[Min(W)]]

\* C7 (as claimed): a data line matched while no ISRC is pending gets the
\* code found by the scan around its own position in the page.
C7_OwnWindow ==
    [][(/\ LineStep /\ ReachesMatching
        /\ current_isrc = NULL
        /\ LinePatterns[CurrentLine].isrc_detected = NULL
        /\ Len(rows') = Len(rows) + 1
        /\ Last(trace').branch \in {"data", "data_digital"})
          => Last(rows').isrc_iswc =
                 OwnWindowCode(extract_page_lines(doc[page_idx]), line_idx)]_vars

\* the code printed on the lines that carry one, whether what is left of the
\* line without its labelled code is shorter than 5 characters, and the
\* branch that takes the line when it goes on to header and data matching
IsrcLines ==
    [isrc |-> [code |-> "BR-ABC-12-12345", short |-> TRUE, branch |-> "isrc_only"],
     isrcShort |-> [code |-> "BR-ABC-12-12345", short |-> TRUE, branch |-> "isrc_only"],
     headerIsrc |-> [code |-> "BR-ABC-12-12345", short |-> FALSE, branch |-> "obra_header"],
     dataIsrc |-> [code |-> "BR-XYZ-99-00001", short |-> FALSE, branch |-> "data"],
     dataBare |-> [code |-> "BRXYZ9900002", short |-> FALSE, branch |-> "data"]]

\* C8: a line with an ISRC that reaches the matching stage makes that code
\* the pending ISRC.  When the rest of the line is shorter than 5 characters
\* the line is consumed there: no row, code and title untouched, the code
\* left pending.  Otherwise the line goes on to header and data matching
\* with the code pending: a work header clears it, a data line puts it in
\* its row.
C8_IsrcLine ==
    [][(LineStep /\ ReachesMatching /\ CurrentName \in DOMAIN IsrcLines)
          => LET l == IsrcLines[CurrentName]
             IN  /\ Last(trace').branch = l.branch
                 /\ l.short =>
                       /\ current_isrc' = l.code
                       /\ rows' = rows
                       /\ current_obra_codigo' = current_obra_codigo
                       /\ current_obra_titulo' = current_obra_titulo
                 /\ l.branch = "obra_header" =>
                       current_isrc' = NULL /\ rows' = rows
                 /\ l.branch = "data" =>
                       /\ Len(rows') = Len(rows) + 1
                       /\ Last(rows').isrc_iswc = l.code
                       /\ current_isrc' = NULL]_vars

\* C8 witness: a labelled code followed by four characters was consumed and
\* left its code pending, and a data line carrying a labelled code of its
\* own put that code in its row
C8_Witness ==
    /\ Len(trace) = 3
    /\ NameAt(2) = "isrcShort" /\ trace[2].branch = "isrc_only"
    /\ NameAt(3) = "dataIsrc" /\ trace[3].branch = "data"
    /\ Len(rows) = 1
    /\ rows[1].isrc_iswc = "BR-XYZ-99-00001"
    /\ current_isrc = NULL

\* the pattern that takes each data line and the rubrica it maps to
DataLines ==
    [data |-> [pattern |-> "data", rubrica |-> "DOE SDI"],
     dataBoth |-> [pattern |-> "data", rubrica |-> "SPOTIFY BR"],
     dataDigital |-> [pattern |-> "data_digital", rubrica |-> "SPOTIFY"]]

\* C9: a data line that reaches the data stage is taken by the standard
\* pattern when that matches and by the digital pattern only otherwise; the
\* pattern that takes it decides the mapping, and exactly one row is
\* appended.
C9_Cascade ==
    [][(LineStep /\ ReachesMatching /\ CurrentName \in DOMAIN DataLines)
          => /\ Last(trace').branch = DataLines[CurrentName].pattern
             /\ Len(rows') = Len(rows) + 1
             /\ SubSeq(rows', 1, Len(rows)) = rows
             /\ Last(rows').rubrica = DataLines[CurrentName].rubrica]_vars

\* C9 witness: a line both patterns match was mapped by the standard one and
\* a line only the digital pattern matches was mapped by the digital one
C9_Witness ==
    /\ Len(trace) = 3
    /\ NameAt(2) = "dataBoth" /\ trace[2].branch = "data"
    /\ NameAt(3) = "dataDigital" /\ trace[3].branch = "data_digital"
    /\ LinePatterns[LineAt(2)].std_match.ok /\ LinePatterns[LineAt(2)].digital_match.ok
    /\ ~LinePatterns[LineAt(3)].std_match.ok
    /\ Len(rows) = 2
    /\ rows[1].rubrica = "SPOTIFY BR"
    /\ rows[2].rubrica = "SPOTIFY"

(***************************************************************************)
(* Participant lines of the analytic reports                               *)
(***************************************************************************)

MaxAnaliticoLen == 4

AutoralCatalogue == {"obraColHdr", "obra", "obraB", "part4", "part5"}

ConexoCatalogue == {"gravColHdr", "grav", "gravB", "cPart4", "cPart5", "cPartDash"}

InitAnalitico ==
    \/ \E d \in Documents(AutoralCatalogue, MaxAnaliticoLen) :
          ExtractorEntry("autoral", d, "RELATORIO_ANALITICO_AUTORAL")
    \/ \E d \in Documents(ConexoCatalogue, MaxAnaliticoLen) :
          ExtractorEntry("conexo", d, "RELATORIO_ANALITICO_CONEXO")

SpecAnalitico == InitAnalitico /\ [][NextAnalitico]_vars

\* a step that reads one line of the current page of an analytic report
AnaliticoLineStep ==
    pc \in {"autoral_lines", "conexo_lines"} /\ line_idx' = line_idx + 1

\* the participant lines: they match the participant pattern of their report
ParticipantLines == {"part4", "part5", "cPart4", "cPart5", "cPartDash"}

\* code, title and ISWC/ISRC printed on the work and recording header lines
AnaliticoHeaderFields ==
    [obra |-> [codigo |-> "00012345", titulo |-> "MINHA OBRA",
               code |-> "T-123.456.789-0"],
     obraB |-> [codigo |-> "00054321", titulo |-> "OUTRA OBRA", code |-> NULL],
     grav |-> [codigo |-> "00054321", titulo |-> "MINHA GRAVACAO",
               code |-> "BR-ABC-12-12345"],
     gravB |-> [codigo |-> "00099999", titulo |-> "OUTRA GRAVACAO",
                code |-> "BR-XYZ-99-00001"]]

\* the fields of the last header line read so far (nulls when none was read)
CurrentHeaderFields ==
    LET H == {k \in 1..Len(trace) : NameAt(k) \in DOMAIN AnaliticoHeaderFields}
    IN  IF H = {} THEN [codigo |-> NULL, titulo |-> NULL, code |-> NULL]
        ELSE AnaliticoHeaderFields[NameAt(Max(H))]

\* C10: in the authorial and connected-rights extractors every participant
\* line appends exactly one participant row, which carries the code, the
\* title and the ISWC/ISRC of the most recent work/recording header line,
\* and leaves the current code, title and ISWC/ISRC as they were.
C10_ParticipantRow ==
    [][(AnaliticoLineStep /\ CurrentName \in ParticipantLines)
          => /\ Len(rows') = Len(rows) + 1
             /\ SubSeq(rows', 1, Len(rows)) = rows
             /\ Last(rows').cod_ecad_participante = split(CurrentLine)[1]
             /\ Last(rows').obra_codigo = CurrentHeaderFields.codigo
             /\ Last(rows').obra_referencia = CurrentHeaderFields.titulo
             /\ Last(rows').isrc_iswc = CurrentHeaderFields.code
             /\ ContextUnchanged]_vars

(***************************************************************************)
(* The six extractors of EXTRACTOR_MAP                                     *)
(***************************************************************************)

MaxLayoutLen == 3

\* the layout tags the four wrappers pass to _extract_demonstrativo_padrao
PadraoLayouts ==
    {"DEMONSTRATIVO_TITULAR", "DISTRIBUICAO_PRESCRITIVEIS",
     "DEMONSTRATIVO_ANTECIPACAO_PRESCRITOS", "DEMONSTRATIVO_SERVICOS_DIGITAIS"}

PadraoLayoutCatalogue == {"colhdr", "headerA", "data", "capitulo", "other"}

AutoralLayoutCatalogue == {"obraColHdr", "obra", "part4", "other"}

ConexoLayoutCatalogue == {"gravColHdr", "grav", "cPart4", "other"}

InitLayouts ==
    \/ \E d \in Documents(PadraoLayoutCatalogue, MaxLayoutLen), t \in PadraoLayouts :
          ExtractorEntry("padrao", d, t)
    \/ \E d \in Documents(AutoralLayoutCatalogue, MaxLayoutLen) :
          ExtractorEntry("autoral", d, "RELATORIO_ANALITICO_AUTORAL")
    \/ \E d \in Documents(ConexoLayoutCatalogue, MaxLayoutLen) :
          ExtractorEntry("conexo", d, "RELATORIO_ANALITICO_CONEXO")

NextLayouts == NextPadrao \/ NextAnalitico

SpecLayouts == InitLayouts /\ [][NextLayouts]_vars

\* C11: in every layout, a run that collected no row returns, without
\* raising, the frame without records whose columns are the master schema
\* columns in schema order.
C11_EmptyResult ==
    (pc = "done" /\ rows = << >>)
       => /\ result.columns = MASTER_SCHEMA_COLUMNS
          /\ result.records = << >>
          /\ error = NULL

\* a run that read lines, matched no row and returned
C11_Witness ==
    /\ pc = "done"
    /\ rows = << >>
    /\ Len(trace) >= 2
    /\ tipo = "RELATORIO_ANALITICO_CONEXO"

\* the columns of pd.DataFrame(rows): what the extractor produced
ProducedColumns == FrameColumns(rows)

\* the columns of the returned frame after the first n
ColumnsAfter(n) == SubSeq(result.columns, n + 1, Len(result.columns))

\* the returned frame has the master schema columns first, in schema order,
\* then the non-schema columns the extractor produced, in the order of their
\* first appearance, and one record per row
SchemaThenExtras ==
    /\ SubSeq(result.columns, 1, Len(MASTER_SCHEMA_COLUMNS)) = MASTER_SCHEMA_COLUMNS
    /\ ColumnsAfter(Len(MASTER_SCHEMA_COLUMNS))
          = SelectSeq2(ProducedColumns,
                       Range(ProducedColumns) \ Range(MASTER_SCHEMA_COLUMNS))
    /\ Len(result.records) = Len(rows)
    /\ \A i \in 1..Len(result.records) :
          DOMAIN result.records[i] = Range(result.columns)

\* the columns normalize_to_master_schema derives from the period column
PeriodColumns == {"periodo_inicial", "periodo_final"}

\* C12 as stated: for every layout, the frame returned for a non-empty row
\* set has the schema columns first, then the extra columns, and holds null
\* in every schema column the extractor did not produce.
C12_NullWhereNotProduced ==
    (pc = "done" /\ rows # << >>)
       => /\ SchemaThenExtras
          /\ \A i \in 1..Len(result.records) :
                \A c \in Range(MASTER_SCHEMA_COLUMNS) \ Range(ProducedColumns) :
                   result.records[i][c] = NULL

\* C12 (amended): as above, except that periodo_inicial and periodo_final
\* hold the two ends of the record's period whenever the extractor produced
\* a period column (and null when it produced none).
C12_NullWhereNotProducedNorDerived ==
    (pc = "done" /\ rows # << >>)
       => /\ SchemaThenExtras
          /\ \A i \in 1..Len(result.records) :
                /\ \A c \in (Range(MASTER_SCHEMA_COLUMNS) \ Range(ProducedColumns))
                               \ PeriodColumns :
                      result.records[i][c] = NULL
                /\ IF "periodo" \in Range(ProducedColumns)
                   THEN /\ result.records[i].periodo_inicial
                              = split_period_range(result.records[i].periodo)[1]
                        /\ result.records[i].periodo_final
                              = split_period_range(result.records[i].periodo)[2]
                   ELSE /\ result.records[i].periodo_inicial = NULL
                        /\ result.records[i].periodo_final = NULL

\* a standard statement whose first row lacks a column a later row has, so
\* that the extra columns are met in an order that is not that of one row
C12_Witness ==
    /\ pc = "done"
    /\ Len(rows) = 2
    /\ DOMAIN rows[1] # DOMAIN rows[2]
    /\ "or_e_peso" \notin DOMAIN rows[1]
    /\ result.records[2].periodo_inicial # NULL
    /\ result.records[1].arquivo_origem = NULL

\* the signatures one of whose keywords, at least, is in the first-page text
PartlyMatching ==
    {i \in 1..Len(LAYOUT_SIGNATURES) :
        \E k \in 1..Len(LAYOUT_SIGNATURES[i].keywords) :
            Contains(Upper(extract_first_page_text(doc)),
                     LAYOUT_SIGNATURES[i].keywords[k])}

\* C13: on a first-page text that no signature matches, the empty text
\* included, identify_layout returns None and raises nothing.
C13_Unidentified ==
    (/\ pc = "identified"
     /\ (extract_first_page_text(doc) = "" \/ Matching = {}))
       => (layout = NULL /\ error = NULL)

\* a text holding a keyword of some signature, but of none all of them
C13_Witness ==
    /\ pc = "identified"
    /\ Matching = {}
    /\ PartlyMatching # {}
    /\ layout = NULL

(***************************************************************************)
(* extract_pdf: identification, dispatch, extraction                       *)
(***************************************************************************)

\* the extractor functions: the loop each one runs and the tag it runs under
Extractors ==
    [_extract_demonstrativo_titular |->
        [entry |-> "padrao", tipo |-> "DEMONSTRATIVO_TITULAR"],
     _extract_servicos_digitais |->
        [entry |-> "padrao", tipo |-> "DEMONSTRATIVO_SERVICOS_DIGITAIS"],
     _extract_antecipacao_prescritos |->
        [entry |-> "padrao", tipo |-> "DEMONSTRATIVO_ANTECIPACAO_PRESCRITOS"],
     _extract_distribuicao_prescritiveis |->
        [entry |-> "padrao", tipo |-> "DISTRIBUICAO_PRESCRITIVEIS"],
     _extract_relatorio_analitico_autoral |->
        [entry |-> "autoral", tipo |-> "RELATORIO_ANALITICO_AUTORAL"],
     _extract_relatorio_analitico_conexo |->
        [entry |-> "conexo", tipo |-> "RELATORIO_ANALITICO_CONEXO"]]

\* a dispatch table without the entry of one of the statement layouts
EXTRACTOR_MAP_without_prescritiveis ==
    [DEMONSTRATIVO_TITULAR |-> "_extract_demonstrativo_titular",
     DEMONSTRATIVO_SERVICOS_DIGITAIS |-> "_extract_servicos_digitais",
     DEMONSTRATIVO_ANTECIPACAO_PRESCRITOS |-> "_extract_antecipacao_prescritos",
     RELATORIO_ANALITICO_AUTORAL |-> "_extract_relatorio_analitico_autoral",
     RELATORIO_ANALITICO_CONEXO |-> "_extract_relatorio_analitico_conexo"]

EXTRACTOR_MAP ==
    [DEMONSTRATIVO_TITULAR |-> "_extract_demonstrativo_titular",
     DEMONSTRATIVO_SERVICOS_DIGITAIS |-> "_extract_servicos_digitais",
     DEMONSTRATIVO_ANTECIPACAO_PRESCRITOS |-> "_extract_antecipacao_prescritos",
     DISTRIBUICAO_PRESCRITIVEIS |-> "_extract_distribuicao_prescritiveis",
     RELATORIO_ANALITICO_AUTORAL |-> "_extract_relatorio_analitico_autoral",
     RELATORIO_ANALITICO_CONEXO |-> "_extract_relatorio_analitico_conexo"]

\* a dispatcher that takes the first extractor of the table for every layout
extractor_for_any(name) ==
    IF name \in DOMAIN EXTRACTOR_MAP THEN "_extract_demonstrativo_titular" ELSE NULL

\* EXTRACTOR_MAP.get(layout)
extractor_for(name) ==
    IF name \in DOMAIN EXTRACTOR_MAP THEN EXTRACTOR_MAP[name] ELSE NULL

\* the messages of the two ValueErrors of extract_pdf
LayoutNaoIdentificado == "Layout nao identificado para o arquivo"

ExtratorNaoImplementado == "Extrator nao implementado para o layout"

\* a file pdfplumber cannot open, and the exception pdfplumber.open raises
Unreadable == << << "%unreadable" >> >>

PdfSyntaxError == "No /Root object! - Is this really a PDF?"

\* extract_pdf up to the call of the extractor
ExtractPdf ==
    /\ pc = "extract_pdf"
    /\ IF doc = Unreadable
       THEN /\ pc' = "raised"
            /\ error' = PdfSyntaxError
            /\ UNCHANGED << layout, tipo, layout_signatures >>
       ELSE /\ layout' = identify_layout(extract_first_page_text(doc))
            /\ layout_signatures' = signatures_after_identify(layout_signatures)
            /\ IF layout' = NULL
               THEN /\ pc' = "raised"
                    /\ error' = LayoutNaoIdentificado
                    /\ tipo' = tipo
               ELSE IF extractor_for(layout') = NULL
               THEN /\ pc' = "raised"
                    /\ error' = ExtratorNaoImplementado
                    /\ tipo' = tipo
               ELSE /\ pc' = Extractors[extractor_for(layout')].entry
                    /\ tipo' = Extractors[extractor_for(layout')].tipo
                    /\ error' = error
    /\ UNCHANGED << original_filename, header_info, doc, page_idx, line_idx,
                    skip_header, current_obra_codigo, current_obra_titulo,
                    current_isrc, current_situacao, current_complemento, rows,
                    result, trace, master_schema_columns, controller, utility >>

NextExtractPdf == ExtractPdf \/ NextPadrao \/ NextAnalitico

MaxPdfLen == 3

PdfCatalogue ==
    {"sigAutoral", "sigConexo", "sigDigitais", "kwTitular", "kwExecucao",
     "colhdr", "data", "part4", "cPart4", "other"}

InitExtractPdf ==
    \E d \in Documents(PdfCatalogue, MaxPdfLen) : ExtractorEntry("extract_pdf", d, NULL)

SpecExtractPdf == InitExtractPdf /\ [][NextExtractPdf]_vars

\* the labels of the loop of each extractor
LoopLabels ==
    [padrao |-> {"padrao", "padrao_lines"},
     autoral |-> {"autoral", "autoral_lines"},
     conexo |-> {"conexo", "conexo_lines"}]

\* no extractor has run: no line was read, no row collected, no frame returned
NoExtractorInvoked ==
    /\ trace = << >>
    /\ rows = << >>
    /\ page_idx = 0
    /\ result = [columns |-> << >>, records |-> << >>]

\* C14: extract_pdf raises the layout-not-identified error, no extractor
\* having run, when no signature matches; it raises the other error, that of
\* the missing extractor, when the layout has no entry in EXTRACTOR_MAP;
\* otherwise the extractor registered under the layout runs, under the tag
\* of that layout, and (layout, frame of that extractor) is returned.
C14_Dispatch ==
    pc # "extract_pdf" =>
        IF layout = NULL
        THEN pc = "raised" /\ error = LayoutNaoIdentificado /\ NoExtractorInvoked
        ELSE IF layout \notin DOMAIN EXTRACTOR_MAP
        THEN pc = "raised" /\ error = ExtratorNaoImplementado /\ NoExtractorInvoked
        ELSE /\ error = NULL
             /\ pc \in LoopLabels[Extractors[EXTRACTOR_MAP[layout]].entry] \cup {"done"}
             /\ tipo = Extractors[EXTRACTOR_MAP[layout]].tipo
             /\ pc = "done" =>
                   \A i \in 1..Len(result.records) :
                      result.records[i].tipo_extracao = layout

\* a document identified as an authorial report whose lines the connected-
\* rights extractor would turn into rows has been extracted
C14_Witness ==
    /\ pc = "done"
    /\ layout = "RELATORIO_ANALITICO_AUTORAL"
    /\ Len(result.records) = 1
    /\ \E i \in 1..Len(doc[1]) : doc[1][i] = "cPart4"

(***************************************************************************)
(* Jobs: process_extraction and _try_generate_consolidated, one task for   *)
(* each job; the tasks run on threads that the scheduler interleaves       *)
(***************************************************************************)

\* the thread-local state of the scheduled task
Locals ==
    [pc |-> pc, layout |-> layout, tipo |-> tipo,
     original_filename |-> original_filename, header_info |-> header_info,
     doc |-> doc, page_idx |-> page_idx, line_idx |-> line_idx,
     skip_header |-> skip_header, current_obra_codigo |-> current_obra_codigo,
     current_obra_titulo |-> current_obra_titulo, current_isrc |-> current_isrc,
     current_situacao |-> current_situacao,
     current_complemento |-> current_complemento, rows |-> rows,
     result |-> result, trace |-> trace, error |-> error, job_id |-> job_id]

\* the thread-local state of a call entered at label entry on document d
\* for job j
LocalsAtEntry(entry, d, j) ==
    [pc |-> entry, layout |-> NULL, tipo |-> NULL,
     original_filename |-> "extrato.pdf",
     header_info |-> [titular |-> NULL, periodo_distribuicao |-> NULL],
     doc |-> d, page_idx |-> 0, line_idx |-> 0, skip_header |-> TRUE,
     current_obra_codigo |-> NULL, current_obra_titulo |-> NULL,
     current_isrc |-> NULL, current_situacao |-> NULL,
     current_complemento |-> NULL, rows |-> << >>,
     result |-> [columns |-> << >>, records |-> << >>], trace |-> << >>,
     error |-> NULL, job_id |-> j]

\* the scheduled task is t (in the initial state)
Scheduled(t) ==
    /\ pc = t.pc
    /\ layout = t.layout
    /\ tipo = t.tipo
    /\ original_filename = t.original_filename
    /\ header_info = t.header_info
    /\ doc = t.doc
    /\ page_idx = t.page_idx
    /\ line_idx = t.line_idx
    /\ skip_header = t.skip_header
    /\ current_obra_codigo = t.current_obra_codigo
    /\ current_obra_titulo = t.current_obra_titulo
    /\ current_isrc = t.current_isrc
    /\ current_situacao = t.current_situacao
    /\ current_complemento = t.current_complemento
    /\ rows = t.rows
    /\ result = t.result
    /\ trace = t.trace
    /\ error = t.error
    /\ job_id = t.job_id

\* the scheduler gives the processor to task t
Resume(t) ==
    /\ pc' = t.pc
    /\ layout' = t.layout
    /\ tipo' = t.tipo
    /\ original_filename' = t.original_filename
    /\ header_info' = t.header_info
    /\ doc' = t.doc
    /\ page_idx' = t.page_idx
    /\ line_idx' = t.line_idx
    /\ skip_header' = t.skip_header
    /\ current_obra_codigo' = t.current_obra_codigo
    /\ current_obra_titulo' = t.current_obra_titulo
    /\ current_isrc' = t.current_isrc
    /\ current_situacao' = t.current_situacao
    /\ current_complemento' = t.current_complemento
    /\ rows' = t.rows
    /\ result' = t.result
    /\ trace' = t.trace
    /\ error' = t.error
    /\ job_id' = t.job_id

\* a thread switch: the scheduled task is suspended and another one resumed
Switch ==
    /\ \E k \in 1..Len(suspended) :
          /\ Resume(suspended[k])
          /\ suspended' = [suspended EXCEPT ![k] = Locals]
    /\ UNCHANGED << globals, jobs, files, utility >>

\* all the tasks, the scheduled one first
Tasks == << Locals >> \o suspended

\* "concluido" and "erro"
Terminal == {"concluido", "erro"}

\* the row create_job inserts
create_job(batch_id) ==
    [batch_id |-> batch_id, status |-> "pendente", layout_identified |-> NULL,
     total_pages |-> NULL, pages_processed |-> 0, progress |-> 0,
     error_message |-> NULL, result_path |-> NULL]

\* the names of the files of EXPORT_DIR
JsonName(j) == "resultado_" \o j \o ".json"

ExcelName(j) == "extracao_" \o j \o ".xlsx"

ConsolidatedName(b) == "consolidado_mestre_" \o b \o ".xlsx"

\* the directory after a file was written: a file of that name is replaced
Written(fs, name, content) ==
    {f \in fs : f.name # name} \cup {[name |-> name, content |-> content]}

Exists(fs, name) == \E f \in fs : f.name = name

ContentOf(fs, name) == (CHOOSE f \in fs : f.name = name).content

\* the ids of the jobs in the order of their creation
JobIds == << "j1", "j2", "j3", "j4" >>

\* the reverse of a sequence
Reverse(q) == [k \in 1..Len(q) |-> q[Len(q) + 1 - k]]

\* variant: the jobs of the batch, newest first (the order of get_all_jobs)
get_jobs_by_batch_desc(js, batch_id) ==
    LET of_batch(j) == j \in DOMAIN js /\ js[j].batch_id = batch_id
    IN  SelectSeq(Reverse(JobIds), of_batch)

\* get_jobs_by_batch(db, batch_id): the jobs of the batch, oldest first
get_jobs_by_batch(js, batch_id) ==
    LET of_batch(j) == j \in DOMAIN js /\ js[j].batch_id = batch_id
    IN  SelectSeq(JobIds, of_batch)

\* any(j.status in ("concluido", "erro") for j in jobs)
any_terminal(js, ids) == \E k \in 1..Len(ids) : js[ids[k]].status \in Terminal

\* all(j.status in ("concluido", "erro") for j in jobs)
all_terminal(js, ids) == \A k \in 1..Len(ids) : js[ids[k]].status \in Terminal

\* the jobs whose frame goes into the consolidated file: concluded, with a
\* JSON file that holds records
with_data(js, fs, ids) ==
    LET has_data(j) == /\ js[j].status = "concluido"
                       /\ Exists(fs, JsonName(j))
                       /\ ContentOf(fs, JsonName(j)).records # << >>
    IN  SelectSeq(ids, has_data)

\* pd.concat(dataframes, ignore_index=True): here the jobs the records are
\* from and the number of records of each
concat(fs, ids) ==
    [k \in 1..Len(ids) |->
        [job |-> ids[k], records |-> Len(ContentOf(fs, JsonName(ids[k])).records)]]

\* EXPORT_DIR after _try_generate_consolidated(db, batch_id)
try_generate_consolidated(js, fs, batch_id) ==
    LET generate(ids) ==
            IF ids = << >> THEN fs
            ELSE IF ~all_terminal(js, ids) THEN fs
            ELSE IF with_data(js, fs, ids) = << >> THEN fs
            ELSE Written(fs, ConsolidatedName(batch_id),
                         concat(fs, with_data(js, fs, ids)))
    IN  generate(get_jobs_by_batch(js, batch_id))

\* the variables process_extraction leaves alone outside the extraction
extraction == << layout, tipo, original_filename, header_info, doc, page_idx,
                 line_idx, skip_header, current_obra_codigo,
                 current_obra_titulo, current_isrc, current_situacao,
                 current_complemento, rows, result, trace, error >>

\* process_extraction up to the call of extract_pdf
ProcessStart ==
    /\ pc = "process_extraction"
    /\ IF job_id \notin DOMAIN jobs
       THEN pc' = "returned" /\ jobs' = jobs
       ELSE /\ pc' = "extract_pdf"
            /\ jobs' = [jobs EXCEPT ![job_id].status = "processando"]
    /\ UNCHANGED << extraction, globals, utility, job_id, files, suspended >>

\* what the Excel writer raises when it cannot write a cell of the workbook
ExportError == "IllegalCharacterError"

\* extract_pdf has returned: the layout, the pages and the progress of the
\* job are committed; df.to_json(...) writes the JSON file and
\* export_single_job_to_excel(df, job_id) the workbook, unless the writer
\* raises on a record of the frame
ProcessExport ==
    /\ pc = "done"
    /\ job_id # NULL
    /\ jobs' = [jobs EXCEPT ![job_id] =
                   [@ EXCEPT !.layout_identified = layout,
                             !.total_pages = Len(doc),
                             !.pages_processed = Len(doc),
                             !.progress = 100]]
    /\ \/ /\ files' = Written(Written(files, JsonName(job_id), result),
                               ExcelName(job_id), result)
          /\ pc' = "exported"
          /\ error' = error
       \/ /\ result.records # << >>
          /\ files' = Written(files, JsonName(job_id), result)
          /\ pc' = "raised"
          /\ error' = ExportError
    /\ UNCHANGED << layout, tipo, original_filename, header_info, doc, page_idx,
                    line_idx, skip_header, current_obra_codigo,
                    current_obra_titulo, current_isrc, current_situacao,
                    current_complemento, rows, result, trace, globals, utility,
                    job_id, suspended >>

\* variant: the status is committed with the fields, before the files are
\* written
ProcessDoneBeforeExport ==
    /\ pc = "done"
    /\ job_id # NULL
    /\ jobs' = [jobs EXCEPT ![job_id] =
                   [@ EXCEPT !.result_path = ExcelName(job_id),
                             !.status = "concluido"]]
    /\ files' = files
    /\ pc' = "concluded"
    /\ UNCHANGED << extraction, globals, utility, job_id, suspended >>

\* the files are written: result_path and status "concluido" are committed
ProcessDone ==
    /\ pc = "exported"
    /\ jobs' = [jobs EXCEPT ![job_id] =
                   [@ EXCEPT !.result_path = ExcelName(job_id),
                             !.status = "concluido"]]
    /\ files' = files
    /\ pc' = "concluded"
    /\ UNCHANGED << extraction, globals, utility, job_id, suspended >>

\* variant: the consolidation attempt raises when it has no frame to write,
\* and the second handler of process_extraction takes the exception
TryGenerateConsolidatedRaising ==
    /\ pc = "concluded"
    /\ files' = try_generate_consolidated(jobs, files, jobs[job_id].batch_id)
    /\ jobs' = IF Exists(files', ConsolidatedName(jobs[job_id].batch_id))
               THEN jobs
               ELSE [jobs EXCEPT ![job_id] =
                        [@ EXCEPT !.status = "erro",
                                  !.error_message =
                                     "Erro inesperado durante o processamento: "]]
    /\ pc' = "returned"
    /\ UNCHANGED << extraction, globals, utility, job_id, suspended >>

\* _try_generate_consolidated(db, job.batch_id), then the task returns
TryGenerateConsolidated ==
    /\ pc = "concluded"
    /\ files' = try_generate_consolidated(jobs, files, jobs[job_id].batch_id)
    /\ pc' = "returned"
    /\ UNCHANGED << extraction, globals, utility, job_id, jobs, suspended >>

\* the exceptions the first handler takes
ValueErrors == {LayoutNaoIdentificado, ExtratorNaoImplementado}

\* str(e) for a ValueError, the prefixed message for any other exception
error_message(e) ==
    IF e \in ValueErrors THEN e
    ELSE "Erro inesperado durante o processamento: " \o e

\* variant: the failure marks every job of the batch
mark_failed_batch(js, id, e) ==
    [j \in DOMAIN js |->
        IF js[j].batch_id = js[id].batch_id
        THEN [js[j] EXCEPT !.status = "erro",
                           !.error_message = error_message(e)]
        ELSE js[j]]

\* job.status = "erro"; job.error_message = ...; db.commit()
mark_failed(js, id, e) ==
    [js EXCEPT ![id] = [@ EXCEPT !.status = "erro",
                                 !.error_message = error_message(e)]]

\* the two handlers: status "erro" and the message, then the task returns
ProcessFail ==
    /\ pc = "raised"
    /\ job_id # NULL
    /\ jobs' = mark_failed(jobs, job_id, error)
    /\ pc' = "returned"
    /\ UNCHANGED << extraction, globals, utility, job_id, files, suspended >>

NextBatch ==
    \/ ProcessStart
    \/ NextExtractPdf
    \/ ProcessExport
    \/ ProcessDone
    \/ TryGenerateConsolidated
    \/ ProcessFail
    \/ Switch

MaxJobs == 2

\* the uploaded files: one no signature matches, one that cannot be opened,
\* an authorial report with a participant line, a connected-rights report
\* without lines, a digital-services statement with one line
JobDocuments ==
    {<< << "other" >> >>,
     Unreadable,
     << << "sigAutoral", "part4" >> >>,
     << << "sigConexo" >> >>,
     << << "sigDigitais", "data" >> >>}

BatchIds == {"b1", "b2"}

\* the jobs of the uploads exist, all "pendente", the first in batch b1,
\* and the task of each is about to start
InitBatch ==
    \E d \in [1..MaxJobs -> JobDocuments], b \in [1..MaxJobs -> BatchIds] :
        /\ b[1] = "b1"
        /\ Scheduled(LocalsAtEntry("process_extraction", d[1], JobIds[1]))
        /\ suspended = [k \in 1..(MaxJobs - 1) |->
                          LocalsAtEntry("process_extraction", d[k + 1],
                                        JobIds[k + 1])]
        /\ jobs = [j \in {JobIds[k] : k \in 1..MaxJobs} |->
                      create_job(b[CHOOSE k \in 1..MaxJobs : JobIds[k] = j])]
        /\ files = {}
        /\ argument = NULL
        /\ returned = NULL
        /\ layout_signatures = SignatureNames(LAYOUT_SIGNATURES)
        /\ master_schema_columns = MASTER_SCHEMA_COLUMNS

SpecBatch == InitBatch /\ [][NextBatch]_vars

\* the jobs of batch b
JobsOf(b) == {j \in DOMAIN jobs : jobs[j].batch_id = b}

\* the step writes the consolidated file of batch b
Generates(b) ==
    /\ pc = "concluded"
    /\ jobs[job_id].batch_id = b
    /\ Exists(files', ConsolidatedName(b))
    /\ pc' = "returned"
    /\ job_id' = job_id

\* C15: a step that writes the consolidated file of a batch is taken in a
\* state where every job of the batch is 'concluido' or 'erro', none is
\* 'pendente' or 'processando'; and a batch that has a consolidated file has
\* terminal jobs only.
C15_OnlyWhenAllTerminal ==
    /\ [][\A b \in BatchIds :
             Generates(b) => \A j \in JobsOf(b) : jobs[j].status \in Terminal]_vars
    /\ [](\A b \in BatchIds :
             Exists(files, ConsolidatedName(b))
                => \A j \in JobsOf(b) :
                      jobs[j].status \notin {"pendente", "processando"})

\* the consolidated file of a batch of two jobs, one concluded and one
\* failed, has been written
C15_Witness ==
    /\ Exists(files, ConsolidatedName("b1"))
    /\ \E i, j \in JobsOf("b1") :
          jobs[i].status = "concluido" /\ jobs[j].status = "erro"

\* every task has returned
AllReturned == \A k \in 1..Len(Tasks) : Tasks[k].pc = "returned"

\* job j is concluded and its frame has records
ConcludedWithRows(j) ==
    /\ jobs[j].status = "concluido"
    /\ Exists(files, JsonName(j))
    /\ ContentOf(files, JsonName(j)).records # << >>

\* C16: whatever the order in which the jobs of a batch finish, once every
\* task has returned, a batch whose jobs are all terminal and one of whose
\* jobs is 'concluido' with records has its consolidated file.
C16_ConsolidatedInTheEnd ==
    AllReturned =>
        \A b \in BatchIds :
            (/\ \A j \in JobsOf(b) : jobs[j].status \in Terminal
             /\ \E j \in JobsOf(b) : ConcludedWithRows(j))
               => Exists(files, ConsolidatedName(b))

\* the step is one of the two handlers of process_extraction
FailStep ==
    pc = "raised" /\ job_id # NULL /\ pc' = "returned" /\ job_id' = job_id

\* C17: the step that handles a failed extraction sets the job of the task
\* to 'erro' with a message and leaves every other job, every file and every
\* other task as they were; once every task has returned, every job,
\* the siblings of a failed one included, is 'concluido' or 'erro'.
C17_FailureIsLocal ==
    /\ [][FailStep =>
             /\ jobs'[job_id].status = "erro"
             /\ jobs'[job_id].error_message \notin {NULL, ""}
             /\ \A j \in DOMAIN jobs \ {job_id} : jobs'[j] = jobs[j]
             /\ DOMAIN jobs' = DOMAIN jobs
             /\ files' = files
             /\ suspended' = suspended
             /\ globals' = globals]_vars
    /\ [](AllReturned => \A j \in DOMAIN jobs : jobs[j].status \in Terminal)

\* a file that could not be opened failed first, and its sibling in the
\* batch, started after it, concluded with its record
C17_Witness ==
    /\ AllReturned
    /\ jobs["j1"].status = "erro"
    /\ jobs["j1"].error_message = error_message(PdfSyntaxError)
    /\ jobs["j2"].batch_id = "b1"
    /\ jobs["j2"].status = "concluido"
    /\ job_id = "j2"
    /\ ContentOf(files, JsonName("j2")).records # << >>

(***************************************************************************)
(* Two extraction calls in one process                                     *)
(***************************************************************************)

\* the locals of a call of the extractor named entry on document d, layout t
RunAtEntry(entry, d, t) ==
    [LocalsAtEntry(entry, d, NULL) EXCEPT !.layout = t, !.tipo = t]

\* the loop variables of an extractor at entry
EntryState ==
    [skip_header |-> TRUE, obra_codigo |-> NULL, obra_titulo |-> NULL,
     isrc |-> NULL, situacao |-> NULL, complemento |-> NULL, rows |-> << >>,
     branch |-> "no_match"]

\* one turn of "for line in lines" of the extractor named entry
line_of(entry, ctx, st, lines, i) ==
    IF entry = "padrao" THEN padrao_line(ctx, st, lines, i)
    ELSE IF entry = "autoral"
    THEN autoral_line(ctx, [st EXCEPT !.branch = "no_match"], lines[i])
    ELSE conexo_line(ctx, [st EXCEPT !.branch = "no_match"], lines[i])

RECURSIVE lines_from(_, _, _, _, _)
\* "for line in lines" from lines[i] on
lines_from(entry, ctx, st, lines, i) ==
    IF i > Len(lines) THEN st
    ELSE lines_from(entry, ctx, line_of(entry, ctx, st, lines, i), lines, i + 1)

RECURSIVE pages_from(_, _, _, _, _)
\* "for page in pdf.pages" from page p on
pages_from(entry, ctx, st, d, p) ==
    IF p > Len(d) THEN st
    ELSE pages_from(entry, ctx,
                    lines_from(entry, ctx,
                               IF entry = "padrao"
                               THEN [st EXCEPT !.skip_header = TRUE] ELSE st,
                               extract_page_lines(d[p]), 1),
                    d, p + 1)

\* the frame an extractor returns for the rows it collected
frame_of(entry, rs, ctx) ==
    IF rs = << >> THEN [columns |-> MASTER_SCHEMA_COLUMNS, records |-> << >>]
    ELSE IF entry = "padrao"
    THEN normalize_to_master_schema(DataFrame(rs), ctx.tipo, ctx.titular, ctx.tipo)
    ELSE normalize_to_master_schema(DataFrame(rs), ctx.tipo, ctx.titular, NULL)

\* what the call with locals t returns when nothing else runs: the whole
\* extractor, from its first page to its return
run_alone(t) ==
    LET entry == Extractors[EXTRACTOR_MAP[t.tipo]].entry
        ctx == [titular |-> t.header_info.titular,
                periodo_dist |-> t.header_info.periodo_distribuicao,
                tipo |-> t.tipo, original_filename |-> t.original_filename]
    IN  frame_of(entry, pages_from(entry, ctx, EntryState, t.doc, 1).rows, ctx)

MaxIsolationLen == 2

\* the calls of the first task
IsolationRuns ==
    {RunAtEntry("padrao", d, "DEMONSTRATIVO_TITULAR") :
        d \in Documents(PadraoLayoutCatalogue, MaxIsolationLen)}
    \cup {RunAtEntry("autoral", d, "RELATORIO_ANALITICO_AUTORAL") :
             d \in Documents(AutoralLayoutCatalogue, MaxIsolationLen)}
    \cup {RunAtEntry("conexo", d, "RELATORIO_ANALITICO_CONEXO") :
             d \in Documents(ConexoLayoutCatalogue, MaxIsolationLen)}

\* the calls of the second task: a statement, an authorial report and a
\* connected-rights report, each with a heading line and a data line
SiblingRuns ==
    {RunAtEntry("padrao", << << "colhdr", "headerA", "data" >> >>,
                "DEMONSTRATIVO_TITULAR"),
     RunAtEntry("autoral", << << "obra", "part4" >> >>,
                "RELATORIO_ANALITICO_AUTORAL"),
     RunAtEntry("conexo", << << "grav", "cPart4" >> >>,
                "RELATORIO_ANALITICO_CONEXO")}

\* two calls, neither started; either may run first
InitIsolation ==
    \E r \in IsolationRuns, s \in SiblingRuns :
        /\ Scheduled(r)
        /\ suspended = << s >>
        /\ jobs = << >>
        /\ files = {}
        /\ argument = NULL
        /\ returned = NULL
        /\ layout_signatures = SignatureNames(LAYOUT_SIGNATURES)
        /\ master_schema_columns = MASTER_SCHEMA_COLUMNS

NextIsolation == NextPadrao \/ NextAnalitico \/ Switch

SpecIsolation == InitIsolation /\ [][NextIsolation]_vars

EntryLabels == {"padrao", "autoral", "conexo"}

\* the forward-fill state of call t is empty
NothingCarried(t) ==
    /\ t.current_obra_codigo = NULL
    /\ t.current_obra_titulo = NULL
    /\ t.current_isrc = NULL
    /\ t.current_situacao = NULL
    /\ t.current_complemento = NULL
    /\ t.rows = << >>

\* C18: whatever the interleaving of the steps of two extraction calls, and
\* whichever of them runs first, a call that has returned has returned the
\* frame it returns when run alone; a call that has not started has an empty
\* forward-fill state whatever the other call has done; and the signature
\* table and the master column list are the ones of the module.
C18_Isolated ==
    /\ \A k \in 1..Len(Tasks) :
          /\ Tasks[k].pc = "done" => Tasks[k].result = run_alone(Tasks[k])
          /\ Tasks[k].pc \in EntryLabels => NothingCarried(Tasks[k])
    /\ layout_signatures = SignatureNames(LAYOUT_SIGNATURES)
    /\ master_schema_columns = MASTER_SCHEMA_COLUMNS

\* a statement whose data line comes with no heading before it has returned
\* its frame after the other call, which read a heading, stopped in the
\* middle of its page
C18_Witness ==
    /\ pc = "done"
    /\ tipo = "DEMONSTRATIVO_TITULAR"
    /\ doc = << << "colhdr", "data" >> >>
    /\ result.records # << >>
    /\ suspended[1].pc = "padrao_lines"
    /\ suspended[1].current_obra_codigo # NULL
    /\ suspended[1].line_idx = 3

(***************************************************************************)
(* Two calls of extract_pdf in one process                                 *)
(***************************************************************************)

MaxCallLen == 2

CallCatalogue ==
    {"sigAutoral", "sigConexo", "kwTitular", "kwExecucao", "part4", "other"}

\* the calls of the second task: an authorial report and a digital-services
\* statement, each with a row to return
SiblingCalls ==
    {LocalsAtEntry("extract_pdf", << << "sigAutoral", "part4" >> >>, NULL),
     LocalsAtEntry("extract_pdf", << << "sigDigitais", "colhdr", "data" >> >>, NULL)}

\* two calls of extract_pdf, neither started; either may run first
InitCalls ==
    \E d \in Documents(CallCatalogue, MaxCallLen), s \in SiblingCalls :
        /\ Scheduled(LocalsAtEntry("extract_pdf", d, NULL))
        /\ suspended = << s >>
        /\ jobs = << >>
        /\ files = {}
        /\ argument = NULL
        /\ returned = NULL
        /\ layout_signatures = SignatureNames(LAYOUT_SIGNATURES)
        /\ master_schema_columns = MASTER_SCHEMA_COLUMNS

NextCalls == NextExtractPdf \/ Switch

SpecCalls == InitCalls /\ [][NextCalls]_vars

\* the call with locals t has called identify_layout
Identified(t) == t.pc # "extract_pdf"

\* C19: the layout a call of extract_pdf got from identify_layout is the
\* layout identify_layout returns for the same first-page text in every later
\* state, whatever steps of either extraction have run since; two calls on
\* the same first-page text got the same layout; and the signature table is
\* the one of the module after every call.
C19_Deterministic ==
    /\ \A k \in 1..Len(Tasks) :
          Identified(Tasks[k])
             => identify_layout(extract_first_page_text(Tasks[k].doc))
                   = Tasks[k].layout
    /\ \A j, k \in 1..Len(Tasks) :
          (/\ Identified(Tasks[j])
           /\ Identified(Tasks[k])
           /\ extract_first_page_text(Tasks[j].doc)
                 = extract_first_page_text(Tasks[k].doc))
             => Tasks[j].layout = Tasks[k].layout
    /\ layout_signatures = SignatureNames(LAYOUT_SIGNATURES)

\* two calls on the same first page, the second made after the first had
\* extracted its row and returned
C19_Witness ==
    /\ pc = "autoral"
    /\ layout = "RELATORIO_ANALITICO_AUTORAL"
    /\ suspended[1].pc = "done"
    /\ suspended[1].layout = layout
    /\ suspended[1].result.records # << >>
    /\ extract_first_page_text(doc) = extract_first_page_text(suspended[1].doc)

\* the loop is about to read a line of the current page
AtLine ==
    /\ pc \in {"padrao_lines", "autoral_lines", "conexo_lines"}
    /\ line_idx <= Len(extract_page_lines(doc[page_idx]))

\* the line matches neither header regex as the standard extractor accepts
\* them, holds no ISRC, and matches no data regex and not the chapter regex
PadraoMiss(p) ==
    /\ ~p.obra_match.ok
    /\ ~(p.simple_match.ok /\ ~p.data_marker /\ (p.title_match.ok \/ p.perc_match))
    /\ p.isrc_detected = NULL
    /\ ~p.std_match.ok
    /\ ~p.digital_match.ok
    /\ ~p.cap_match.ok

\* the line is no work header, does not start with a code, and is no
\* participant line
AutoralMiss(p) ==
    /\ ~p.obra_match.ok
    /\ ~(p.starts_with_code /\ Len(p.parts) >= 2)
    /\ ~p.part_match.ok

\* the line is no recording header, does not start with a code, is no
\* participant line, and is not taken as a complementary line
ConexoMiss(p) ==
    /\ ~p.grav_match.ok
    /\ ~(p.starts_with_code /\ Len(p.parts) >= 2)
    /\ ~p.part_match.ok
    /\ ~is_complemento(AnaliticoState, p)

\* the line about to be read matches none of the patterns of the extractor
Miss ==
    /\ CurrentLine # ""
    /\ IF pc = "padrao_lines" THEN PadraoMiss(LinePatterns[CurrentLine])
       ELSE IF pc = "autoral_lines" THEN AutoralMiss(AutoralPatterns[CurrentLine])
       ELSE ConexoMiss(ConexoPatterns[CurrentLine])

\* C20: in each of the six extractors, the step that reads a line matching
\* none of the header, code, data or secondary patterns appends no row,
\* leaves the code, title, ISRC, status and complement carried forward as
\* they were, raises nothing, and leaves the loop at the next line of the
\* same page.
C20_MissSkipped ==
    [][(AtLine /\ Miss) =>
          /\ rows' = rows
          /\ current_obra_codigo' = current_obra_codigo
          /\ current_obra_titulo' = current_obra_titulo
          /\ current_isrc' = current_isrc
          /\ current_situacao' = current_situacao
          /\ current_complemento' = current_complemento
          /\ error' = NULL
          /\ pc' = pc
          /\ page_idx' = page_idx
          /\ line_idx' = line_idx + 1]_vars

\* a standard extractor has just passed a line that matches nothing, after
\* the header band, with a work header carried forward
C20_Witness ==
    /\ pc = "padrao_lines"
    /\ trace # << >>
    /\ Last(trace).branch = "no_match"
    /\ doc[page_idx][Last(trace).idx] = "other"
    /\ current_obra_titulo # NULL
    /\ ~skip_header

(***************************************************************************)
(* Calls of the helper functions of app/utils.  A Python value is a record *)
(* of its type and its content; a float is written as its canonical        *)
(* decimal numeral (see float).                                            *)
(***************************************************************************)
Str(s) == [type |-> "str", v |-> s]
None == [type |-> "NoneType", v |-> NULL]

\* values that are not str: None, ints, a float, a list
NonStrings ==
    {None, [type |-> "int", v |-> "0"], [type |-> "int", v |-> "12"],
     [type |-> "float", v |-> "1.5"], [type |-> "list", v |-> "[]"]}

\* "not x or not isinstance(x, str)": what both helpers test first
not_a_string(x) == x.type # "str" \/ x.v = ""

RECURSIVE Join(_)
Join(cs) == IF cs = << >> THEN "" ELSE cs[1] \o Join(Tail(cs))

\* the strings over alphabet A of length at most n
StringsUpTo(A, n) == {Join(cs) : cs \in SeqsUpTo(A, n)}

\* state at the entry of a call fn(a) of a helper function
UtilityEntry(fn, a) ==
    /\ pc = fn
    /\ argument = a
    /\ returned = NULL
    /\ layout = NULL
    /\ tipo = NULL
    /\ original_filename = "extrato.pdf"
    /\ header_info = [titular |-> NULL, periodo_distribuicao |-> NULL]
    /\ doc = << >>
    /\ page_idx = 0
    /\ line_idx = 0
    /\ skip_header = TRUE
    /\ current_obra_codigo = NULL
    /\ current_obra_titulo = NULL
    /\ current_isrc = NULL
    /\ current_situacao = NULL
    /\ current_complemento = NULL
    /\ rows = << >>
    /\ result = [columns |-> << >>, records |-> << >>]
    /\ trace = << >>
    /\ error = NULL
    /\ layout_signatures = SignatureNames(LAYOUT_SIGNATURES)
    /\ master_schema_columns = MASTER_SCHEMA_COLUMNS
    /\ job_id = NULL
    /\ jobs = << >>
    /\ files = {}
    /\ suspended = << >>

\* a helper call returns r: nothing but the call changes
UtilityReturn(r) ==
    /\ returned' = r
    /\ pc' = "returned"
    /\ UNCHANGED << layout, tipo, original_filename, header_info, doc, page_idx,
                    line_idx, skip_header, current_obra_codigo,
                    current_obra_titulo, current_isrc, current_situacao,
                    current_complemento, rows, result, trace, error, argument,
                    globals, controller >>

(***************************************************************************)
(* Monetary values                                                         *)
(***************************************************************************)

\* clean_monetary_value(value) for a value of any type
CleanMonetaryValue ==
    /\ pc = "clean_monetary_value"
    /\ UtilityReturn(IF not_a_string(argument) THEN NULL
                     ELSE clean_monetary_value(argument.v))

MaxMoneyLen == 4
MoneyAlphabet == {"0", "1", ".", ",", "-", " ", "R"}

\* the arguments of the calls: short strings, the placeholder tokens, the
\* documented examples, and values that are not strings
MoneyArguments ==
    {Str(s) : s \in StringsUpTo(MoneyAlphabet, MaxMoneyLen)
                    \cup {"---", " --- ", "None", "1.234,56", "0,00", "R$ 10,50",
                          "1234.56", "-1.234,56", "1,234.56"}}
    \cup NonStrings

MaxMoneyDocLen == 3
MoneyCatalogue == {"colhdr", "headerA", "data", "dataNull"}

InitMonetary ==
    \/ \E a \in MoneyArguments : UtilityEntry("clean_monetary_value", a)
    \/ \E d \in Documents(MoneyCatalogue, MaxMoneyDocLen) :
          ExtractorEntry("padrao", d, "DEMONSTRATIVO_TITULAR")

NextMonetary == CleanMonetaryValue \/ NextPadrao

SpecMonetary == InitMonetary /\ [][NextMonetary]_vars

Placeholders == {"---", "-", "", "None"}

\* what is left of a string after the cleaning: the characters other than
\* digits, ".", "," and "-" removed, then the separators converted
Cleaned(s) ==
    LET kept == KeepChars(Strip(s), Digit \cup {".", ",", "-"})
    IN  IF Contains(kept, ",") /\ Contains(kept, ".")
        THEN ReplaceCh(KeepChars(kept, Digit \cup {",", "-"}), ",", ".")
        ELSE ReplaceCh(kept, ",", ".")

\* s is a decimal numeral: an optional sign, digits with at most one point
\* among them, one digit at least
IsNumeral(s) ==
    LET body == IF StartsWith(s, "-") THEN From(s, 2) ELSE s
    IN  /\ AllIn(body, Digit \cup {"."})
        /\ Cardinality({i \in 1..Len(body) : Ch(body, i) = "."}) <= 1
        /\ \E i \in 1..Len(body) : Ch(body, i) \in Digit

\* the data lines with a monetary field that does not parse, and the fields
NullFieldLines == [dataNull |-> {"rendimento", "percentual_rateio", "valor_rateio"}]

\* C21: clean_monetary_value returns None, not 0.0 and not an exception, for
\* the placeholder tokens, for a value that is not a string and for a string
\* that is not a numeral after the cleaning; a data line with such a field
\* still appends its row, with None in that field.
C21_NullNotZero ==
    /\ [](pc = "returned" =>
            ((\/ not_a_string(argument)
              \/ Strip(argument.v) \in Placeholders
              \/ ~IsNumeral(Cleaned(argument.v)))
                => returned = NULL /\ error = NULL))
    /\ [][(LineStep /\ ReachesMatching /\ CurrentName \in DOMAIN NullFieldLines)
            => /\ Len(rows') = Len(rows) + 1
               /\ SubSeq(rows', 1, Len(rows)) = rows
               /\ \A f \in NullFieldLines[CurrentName] : Last(rows')[f] = NULL
               /\ Last(rows').rubrica = "DOE SDI"
               /\ error' = NULL]_vars

\* C21 witness: a document whose data line has the fields "---", "-" and
\* "1,2,3" returned one record with None in the columns taken from them
C21_Witness ==
    /\ pc = "done"
    /\ Len(result.records) = 1
    /\ NameAt(2) = "dataNull"
    /\ LinePatterns[LineAt(2)].std_match.g4 = "---"
    /\ LinePatterns[LineAt(2)].std_match.g6 = "1,2,3"
    /\ result.records[1].rendimento = NULL
    /\ result.records[1].valor_rateio = NULL
    /\ result.records[1].valor_liquido = NULL
    /\ result.records[1].periodo = "06/2024"

\* the number a digit stands for
DigitValue(c) == CHOOSE n \in 0..9 : Ch("0123456789", n + 1) = c

\* the number a string of digits stands for (0 for the empty string)
RECURSIVE IntOf(_)
IntOf(ds) ==
    IF ds = "" THEN 0
    ELSE 10 * IntOf(SubSeq(ds, 1, Len(ds) - 1)) + DigitValue(Ch(ds, Len(ds)))

\* fractional digits kept when two numerals are compared: as many as an
\* argument can have
MaxFraction == MaxMoneyLen - 1

RECURSIVE Zeros(_)
Zeros(n) == IF n <= 0 THEN "" ELSE "0" \o Zeros(n - 1)

\* the value of decimal numeral s, in units of 10^-MaxFraction
Scaled(s) ==
    LET neg == StartsWith(s, "-")
        body == IF neg THEN From(s, 2) ELSE s
        dots == {i \in 1..Len(body) : Ch(body, i) = "."}
        int_part == IF dots = {} THEN body ELSE SubSeq(body, 1, Min(dots) - 1)
        frac_part == IF dots = {} THEN "" ELSE From(body, Min(dots) + 1)
        n == IntOf(int_part \o frac_part \o Zeros(MaxFraction - Len(frac_part)))
    IN  IF neg THEN 0 - n ELSE n

\* C22: on a string that is a number in Brazilian format once everything but
\* digits, ".", "," and "-" is removed, clean_monetary_value returns its
\* value with every "." dropped and "," read as the decimal point when both
\* occur, with "," read as the decimal point when only "," occurs, and with
\* "." read as the decimal point when no "," occurs: "1.234,56" gives
\* 1234.56, "0,00" gives 0, and a decimal string keeps its value.
C22_BrazilianFormat ==
    (pc = "returned" /\ ~not_a_string(argument)
       /\ Strip(argument.v) \notin Placeholders)
    => /\ IsNumeral(Cleaned(argument.v))
            => /\ returned # NULL
               /\ IsNumeral(returned)
               /\ Scaled(returned) = Scaled(Cleaned(argument.v))
       /\ IsNumeral(argument.v)
            => returned # NULL /\ Scaled(returned) = Scaled(argument.v)
       /\ argument.v = "1.234,56" => returned = "1234.56"
       /\ argument.v = "-1.234,56" => returned = "-1234.56"
       /\ argument.v = "0,00" => returned = "0"
       /\ argument.v = "1234.56" => returned = "1234.56"
       /\ argument.v = "1.01" => Scaled(returned) = Scaled("1.01")
       /\ argument.v = "1,01" => Scaled(returned) = Scaled("1.01")
       /\ argument.v = "1.,1" => Scaled(returned) = Scaled("1.1")

\* C22 witness: the call on "1.234,56" returned 1234.56
C22_Witness ==
    /\ pc = "returned"
    /\ argument = Str("1.234,56")
    /\ returned = "1234.56"
    /\ Scaled(returned) = 123456 * Scaled("0.01")

(***************************************************************************)
(* Periods                                                                 *)
(***************************************************************************)

\* the str or None a Python value holds
Py(x) == IF x.type = "NoneType" THEN NULL ELSE x.v

\* format_period(period_str); the caller hands the result to
\* split_period_range
FormatPeriod ==
    /\ pc = "format_period"
    /\ returned' = format_period(Py(argument))
    /\ pc' = "split_period_range"
    /\ UNCHANGED << layout, tipo, original_filename, header_info, doc, page_idx,
                    line_idx, skip_header, current_obra_codigo,
                    current_obra_titulo, current_isrc, current_situacao,
                    current_complemento, rows, result, trace, error, argument,
                    globals, controller >>

\* split_period_range(the period format_period returned)
SplitPeriodRange ==
    /\ pc = "split_period_range"
    /\ UtilityReturn(split_period_range(returned))

NextPeriod == FormatPeriod \/ SplitPeriodRange

\* longest run of blanks on either side of the "A" of a range
MaxPeriodGap == 2

Months == {m \o "/" \o y : m \in {"01", "06", "12"}, y \in {"2023", "2024"}}

\* the runs of white space of one to MaxPeriodGap characters
Gaps == StringsUpTo(WS, MaxPeriodGap) \ {""}

Ranges == {a \o g \o "A" \o h \o b : a \in Months, b \in Months, g \in Gaps, h \in Gaps}

\* periods handed to format_period: ranges, single months, None, "", and
\* strings of other forms
PeriodArguments ==
    {Str(s) : s \in Ranges \cup Months
                    \cup {"", "06/2024 - 08/2024", "06/2024 a 08/2024",
                          "06/2024A08/2024", " 06/2024 ",
                          "06/2024 A 08/2024 A 12/2024"}}
    \cup {None}

InitPeriod == \E a \in PeriodArguments : UtilityEntry("format_period", a)

SpecPeriod == InitPeriod /\ [][NextPeriod]_vars

\* MM/YYYY
IsMonthYear(s) ==
    /\ Len(s) = 7
    /\ AllIn(SubSeq(s, 1, 2), Digit)
    /\ Ch(s, 3) = "/"
    /\ AllIn(SubSeq(s, 4, 7), Digit)

\* MM/YYYY A MM/YYYY, the "A" between runs of white space
IsMonthRange(s) ==
    /\ Len(s) >= 17
    /\ IsMonthYear(SubSeq(s, 1, 7))
    /\ IsMonthYear(SubSeq(s, Len(s) - 6, Len(s)))
    /\ \E i \in 9..(Len(s) - 8) :
          /\ Ch(s, i) = "A"
          /\ AllIn(SubSeq(s, 8, i - 1), WS)
          /\ AllIn(SubSeq(s, i + 1, Len(s) - 7), WS)

\* C23: split_period_range(format_period(p)) is (first month, second month)
\* for p of the form MM/YYYY A MM/YYYY and (month, month) for a single
\* MM/YYYY; for None and for the empty string format_period returns None and
\* split_period_range (None, None).
C23_PeriodRoundTrip ==
    /\ pc = "split_period_range"
         => /\ Py(argument) \in {NULL, ""} => returned = NULL
            /\ IsMonthRange(Py(argument))
                 => returned = SubSeq(argument.v, 1, 7) \o " - "
                               \o SubSeq(argument.v, Len(argument.v) - 6,
                                         Len(argument.v))
    /\ (pc = "returned" /\ IsMonthRange(Py(argument)))
         => returned = << SubSeq(argument.v, 1, 7),
                          SubSeq(argument.v, Len(argument.v) - 6,
                                 Len(argument.v)) >>
    /\ (pc = "returned" /\ IsMonthYear(Py(argument)))
         => returned = << argument.v, argument.v >>
    /\ (pc = "returned" /\ Py(argument) \in {NULL, ""})
         => returned = << NULL, NULL >>

\* C23 witness: the round trip of a range whose "A" stands between a tab and
\* two blanks returned its two months
C23_Witness ==
    /\ pc = "returned"
    /\ argument = Str("06/2024\tA  12/2023")
    /\ IsMonthRange(argument.v)
    /\ returned = << "06/2024", "12/2023" >>

(***************************************************************************)
(* ISRC of a line                                                          *)
(***************************************************************************)

\* extract_isrc_from_line(line)
ExtractIsrcFromLine ==
    /\ pc = "extract_isrc_from_line"
    /\ UtilityReturn(IF Py(argument) = NULL THEN NULL
                     ELSE extract_isrc_from_line(argument.v))

\* tokens of a line: at most this many
MaxIsrcTokens == 3

IsrcTokens ==
    {"ISRC", "BR-ABC-12-12345", "BRXYZ9900002", "US-A_1-2000007", "BR", "BRASIL",
     "JOHN", "123", "XBR-ABC-12-12345", "BR-ABC-12-123456", "isrc", "ISRC:",
     "QZ-K6P-21-00001-X"}

\* the lines handed to extract_isrc_from_line: up to MaxIsrcTokens tokens
\* separated by one blank, a label followed by a tab or by nothing, and None
IsrcArguments ==
    {Str(JoinSp(ts)) : ts \in SeqsUpTo(IsrcTokens, MaxIsrcTokens)}
    \cup {Str("ISRC\tBR-ABC-12-12345"), Str("ISRCBR-ABC-12-12345"),
          Str("BRXYZ9900002 ISRC  QZ-K6P-21-00001"), None}

InitIsrcLine == \E a \in IsrcArguments : UtilityEntry("extract_isrc_from_line", a)

NextIsrcLine == ExtractIsrcFromLine

SpecIsrcLine == InitIsrcLine /\ [][NextIsrcLine]_vars

\* the code of the label at position i of s: what follows "ISRC" and white
\* space, up to the first character that is neither a word character nor a dash
LabelledCode(s, i) ==
    LET j == SkipClass(s, i + 4, WS)
    IN  SubSeq(s, j, SkipClass(s, j, WordCh \cup {"-"}) - 1)

\* positions of the labels of s: "ISRC", white space, then a code of two
\* capitals and one character more at least
Labels(s) ==
    {i \in 1..Len(s) :
        /\ LitAt(s, i, "ISRC")
        /\ i + 4 <= Len(s) /\ Ch(s, i + 4) \in WS
        /\ Len(LabelledCode(s, i)) >= 3
        /\ AllIn(SubSeq(LabelledCode(s, i), 1, 2), UpperAZ)}

\* t has the fixed shape: 2 capitals, 3 word characters, 2 digits, 5 digits,
\* a dash or nothing between the groups
HasIsrcShape(t) ==
    \E d \in [1..3 -> {0, 1}] :
        LET a == 3 + d[1]
            b == a + 3 + d[2]
            c == b + 2 + d[3]
        IN  /\ Len(t) = c + 4
            /\ AllIn(SubSeq(t, 1, 2), UpperAZ)
            /\ d[1] = 1 => Ch(t, 3) = "-"
            /\ AllIn(SubSeq(t, a, a + 2), WordCh)
            /\ d[2] = 1 => Ch(t, a + 3) = "-"
            /\ AllIn(SubSeq(t, b, b + 1), Digit)
            /\ d[3] = 1 => Ch(t, b + 2) = "-"
            /\ AllIn(SubSeq(t, c, c + 4), Digit)

\* the bare codes of s: the stretches of the fixed shape that no word
\* character precedes or follows
BareCodes(s) ==
    {ij \in (1..Len(s)) \X (1..Len(s)) :
        /\ ij[2] - ij[1] \in 11..14
        /\ HasIsrcShape(SubSeq(s, ij[1], ij[2]))
        /\ (ij[1] = 1 \/ Ch(s, ij[1] - 1) \notin WordCh)
        /\ (ij[2] = Len(s) \/ Ch(s, ij[2] + 1) \notin WordCh)}

FirstBareCode(s) ==
    LET ij == CHOOSE x \in BareCodes(s) : \A y \in BareCodes(s) : x[1] <= y[1]
    IN  SubSeq(s, ij[1], ij[2])

\* C24: extract_isrc_from_line returns the code that follows the first
\* "ISRC" label of the line whenever the line has a label, also when a bare
\* code of the fixed shape stands earlier in the line; without a label it
\* returns the first bare code of the fixed shape; with neither, None.
C24_LabelBeforeBare ==
    pc = "returned" =>
        IF Py(argument) = NULL THEN returned = NULL
        ELSE IF Labels(argument.v) # {}
        THEN returned = LabelledCode(argument.v, Min(Labels(argument.v)))
        ELSE IF BareCodes(argument.v) # {}
        THEN returned = FirstBareCode(argument.v)
        ELSE returned = NULL

\* C24 witness: on a line with a bare code before a labelled one the call
\* returned the labelled code
C24_Witness ==
    /\ pc = "returned"
    /\ argument = Str("BRXYZ9900002 ISRC BR-ABC-12-12345")
    /\ FirstBareCode(argument.v) = "BRXYZ9900002"
    /\ Min(Labels(argument.v)) = 14
    /\ returned = "BR-ABC-12-12345"

(***************************************************************************)
(* The four standard-statement layouts on one document                     *)
(***************************************************************************)

MaxFamilyLen == 2

\* the tags compared with DEMONSTRATIVO_TITULAR
OtherPadraoLayouts == PadraoLayouts \ {"DEMONSTRATIVO_TITULAR"}

\* two calls of _extract_demonstrativo_padrao on the same document, the first
\* through _extract_demonstrativo_titular, the second through one of the
\* other three wrappers; either may run first
InitFamily ==
    \E d \in Documents(PadraoLayoutCatalogue, MaxFamilyLen), t \in OtherPadraoLayouts :
        /\ Scheduled(RunAtEntry("padrao", d, "DEMONSTRATIVO_TITULAR"))
        /\ suspended = << RunAtEntry("padrao", d, t) >>
        /\ jobs = << >>
        /\ files = {}
        /\ argument = NULL
        /\ returned = NULL
        /\ layout_signatures = SignatureNames(LAYOUT_SIGNATURES)
        /\ master_schema_columns = MASTER_SCHEMA_COLUMNS

NextFamily == NextPadrao \/ Switch

SpecFamily == InitFamily /\ [][NextFamily]_vars

\* the columns that carry the layout tag
TagColumns == {"documento_origem", "tipo_extracao"}

\* frames f and g hold the same records but for the tag columns
SameButTag(f, g) ==
    /\ f.columns = g.columns
    /\ Len(f.records) = Len(g.records)
    /\ \A i \in 1..Len(f.records) :
          /\ DOMAIN f.records[i] = DOMAIN g.records[i]
          /\ \A c \in DOMAIN f.records[i] \ TagColumns :
                f.records[i][c] = g.records[i][c]

\* every record of frame f carries tag t in the tag columns
Tagged(f, t) ==
    \A i \in 1..Len(f.records) : \A c \in TagColumns : f.records[i][c] = t

\* C25: on the same pages and lines, the records returned under the four
\* standard-statement tags are identical except for documento_origem and
\* tipo_extracao, which hold the tag of the call.
C25_SameStateMachine ==
    \A j, k \in 1..Len(Tasks) :
        (Tasks[j].pc = "done" /\ Tasks[k].pc = "done")
            => /\ SameButTag(Tasks[j].result, Tasks[k].result)
               /\ Tagged(Tasks[j].result, Tasks[j].tipo)
               /\ Tasks[j].tipo \in PadraoLayouts

\* C25 witness: on a document with a column header and a data line, both
\* calls returned its record, each under its own tag
C25_Witness ==
    /\ pc = "done"
    /\ suspended[1].pc = "done"
    /\ doc = << << "colhdr", "data" >> >>
    /\ tipo = "DEMONSTRATIVO_SERVICOS_DIGITAIS"
    /\ suspended[1].tipo = "DEMONSTRATIVO_TITULAR"
    /\ Len(result.records) = 1
    /\ result.records[1].tipo_extracao = "DEMONSTRATIVO_SERVICOS_DIGITAIS"
    /\ suspended[1].result.records[1].tipo_extracao = "DEMONSTRATIVO_TITULAR"
    /\ result.records[1].rubrica = suspended[1].result.records[1].rubrica

(***************************************************************************)
(* Termination of a call of extract_pdf                                    *)
(***************************************************************************)

\* the call has returned or raised
Ended == pc \in {"done", "raised"}

\* turns of the page loop and of the line loops for pages p.. of the document
RECURSIVE TurnsFrom(_)
TurnsFrom(p) ==
    IF p > Len(doc) THEN 0
    ELSE 1 + Len(extract_page_lines(doc[p])) + TurnsFrom(p + 1)

\* the steps the call has still to take: the lines left on the page, the
\* pages after it with their lines, the return; one more before the dispatch
StepsLeft ==
    IF Ended THEN 0
    ELSE IF pc = "extract_pdf" THEN 2 + TurnsFrom(1)
    ELSE IF pc \in EntryLabels THEN 1 + TurnsFrom(1)
    ELSE 1 + (Len(extract_page_lines(doc[page_idx])) + 1 - line_idx)
           + TurnsFrom(page_idx + 1)

\* the call can take a step: it is about to dispatch, a line of the page is
\* left, or the page is through (then either a page is left or the call returns)
CanStep ==
    \/ pc = "extract_pdf"
    \/ /\ pc \in EntryLabels
       /\ page_idx = 0
       /\ page_idx <= Len(doc)
    \/ /\ pc \in {"padrao_lines", "autoral_lines", "conexo_lines"}
       /\ page_idx \in 1..Len(doc)
       /\ line_idx \in 1..(Len(extract_page_lines(doc[page_idx])) + 1)

\* position of the k-th line read, pages first
ReadAt(k) == << trace[k].page, trace[k].idx >>

\* the lines were read in document order, none twice
ReadInOrder ==
    \A k \in 1..(Len(trace) - 1) :
        \/ ReadAt(k)[1] < ReadAt(k + 1)[1]
        \/ ReadAt(k)[1] = ReadAt(k + 1)[1] /\ ReadAt(k)[2] + 1 = ReadAt(k + 1)[2]

\* C26: a call on a finite list of pages and lines ends: every step brings
\* it nearer to its end by a natural number of steps, a call that has not
\* ended can take a step, and it ends returning a frame or raising one of
\* the two ValueErrors; no line is read twice in a pass over its page.
C26_Terminates ==
    /\ [][StepsLeft' < StepsLeft /\ StepsLeft' >= 0]_vars
    /\ [](Ended \/ CanStep)
    /\ [](pc = "done" => /\ error = NULL
                         /\ Len(trace) = TurnsFrom(1) - Len(doc)
                         /\ Len(result.records) = Len(rows))
    /\ [](pc = "raised" => error \in ValueErrors /\ trace = << >>)
    /\ []ReadInOrder

\* C26 witness: a call on a document of two pages has read the line of the
\* first page and the line of the second and has returned one record
C26_Witness ==
    /\ pc = "done"
    /\ Len(doc) = 2
    /\ Len(trace) = 2
    /\ ReadAt(1) = << 1, 1 >> /\ ReadAt(2) = << 2, 1 >>
    /\ Len(result.records) = 1
    /\ StepsLeft = 0

(***************************************************************************)
(* Text cleaning                                                           *)
(***************************************************************************)

\* clean_text(text) for a value of any type; the caller cleans the result
\* once more
CleanText ==
    /\ pc = "clean_text"
    /\ returned' = IF not_a_string(argument) THEN NULL ELSE clean_text(argument.v)
    /\ pc' = "clean_text_again"
    /\ UNCHANGED << layout, tipo, original_filename, header_info, doc, page_idx,
                    line_idx, skip_header, current_obra_codigo,
                    current_obra_titulo, current_isrc, current_situacao,
                    current_complemento, rows, result, trace, error, argument,
                    globals, controller >>

\* clean_text(what clean_text returned)
CleanTextAgain ==
    /\ pc = "clean_text_again"
    /\ UtilityReturn(clean_text(returned))

NextText == CleanText \/ CleanTextAgain

MaxTextLen == 5
TextAlphabet == {"a", "b", " ", "\t"}

TextArguments ==
    {Str(s) : s \in StringsUpTo(TextAlphabet, MaxTextLen)} \cup NonStrings

InitText == \E a \in TextArguments : UtilityEntry("clean_text", a)

SpecText == InitText /\ [][NextText]_vars

\* the characters of s that are not white space, in order
Letters(s) == KeepChars(s, TextAlphabet \ WS)

\* the places of s where a word ends and another follows: how many letters
\* stand before each
WordBreaks(s) ==
    {Len(Letters(SubSeq(s, 1, i))) :
        i \in {j \in 1..(Len(s) - 1) :
                  /\ Ch(s, j) \notin WS
                  /\ Ch(s, j + 1) \in WS
                  /\ Letters(From(s, j + 1)) # ""}}

\* C27: clean_text returns None for a value that is not a string, for the
\* empty string and for a string of white space only; otherwise it returns
\* the words of the text in order, one blank between two of them and none
\* at either end; cleaning the result again returns the result.
C27_CleanText ==
    /\ [](pc = "clean_text_again" =>
            IF not_a_string(argument) \/ Letters(argument.v) = ""
            THEN returned = NULL
            ELSE /\ returned # NULL
                 /\ Letters(returned) = Letters(argument.v)
                 /\ WordBreaks(returned) = WordBreaks(argument.v)
                 /\ ~Contains(returned, "\t")
                 /\ ~Contains(returned, "  ")
                 /\ Ch(returned, 1) # " "
                 /\ Ch(returned, Len(returned)) # " ")
    /\ [][pc = "clean_text_again" => returned' = returned]_vars

\* C27 witness: "a", a tab and a blank, "b", a blank was cleaned to "a b",
\* and cleaned again
C27_Witness ==
    /\ pc = "returned"
    /\ argument = Str("a\t b ")
    /\ returned = "a b"

(***************************************************************************)
(* The life of a job                                                       *)
(***************************************************************************)

\* the status changes process_extraction makes
StatusMoves ==
    {<< "pendente", "processando" >>, << "processando", "concluido" >>,
     << "processando", "erro" >>}

\* the step is the consolidation attempt of the scheduled task
ConsolidationStep ==
    pc = "concluded" /\ pc' = "returned" /\ job_id' = job_id

\* C28: a step changes the status of a job only from 'pendente' to
\* 'processando' or from 'processando' to 'concluido' or 'erro', so a job
\* that is 'concluido' or 'erro' keeps its status; the consolidation attempt
\* changes no job at all; no job appears or disappears.
C28_StatusMoves ==
    /\ [][/\ DOMAIN jobs' = DOMAIN jobs
          /\ \A j \in DOMAIN jobs :
                \/ jobs'[j].status = jobs[j].status
                \/ << jobs[j].status, jobs'[j].status >> \in StatusMoves
          /\ \A j \in DOMAIN jobs :
                jobs[j].status \in Terminal => jobs'[j].status = jobs[j].status
          /\ ConsolidationStep => jobs' = jobs]_vars
    /\ [](\A j \in DOMAIN jobs :
             jobs[j].status \in {"pendente", "processando"} \cup Terminal)

\* the first job concluded and made its consolidation attempt while its
\* sibling was being processed; the sibling then failed in the export
C28_Witness ==
    /\ AllReturned
    /\ jobs["j1"].status = "concluido"
    /\ jobs["j2"].batch_id = "b1"
    /\ jobs["j2"].status = "erro"
    /\ jobs["j2"].error_message = error_message(ExportError)
    /\ ~Exists(files, ConsolidatedName("b1"))

\* the step commits status 'concluido' for job j
Concludes(j) == jobs[j].status # "concluido" /\ jobs'[j].status = "concluido"

\* C29: a job that is 'concluido' has its layout, its result path and
\* progress 100, and its JSON file and its workbook exist; both files were
\* already there, holding the extracted frame, in the state the status was
\* committed in; a job that is 'erro' has a non-empty message.
C29_ConcludedHasResults ==
    /\ [](\A j \in DOMAIN jobs :
             jobs[j].status = "concluido" =>
                /\ jobs[j].layout_identified # NULL
                /\ jobs[j].result_path = ExcelName(j)
                /\ jobs[j].progress = 100
                /\ jobs[j].pages_processed = jobs[j].total_pages
                /\ Exists(files, JsonName(j))
                /\ Exists(files, ExcelName(j)))
    /\ [][\A j \in DOMAIN jobs :
             Concludes(j) =>
                /\ j = job_id
                /\ Exists(files, JsonName(j))
                /\ ContentOf(files, JsonName(j)) = result
                /\ Exists(files, ExcelName(j))
                /\ ContentOf(files, ExcelName(j)) = result
                /\ files' = files]_vars
    /\ [](\A j \in DOMAIN jobs :
             jobs[j].status = "erro" => jobs[j].error_message \notin {NULL, ""})

\* an authorial report concluded with its record, and a file no signature
\* matches failed with the message of extract_pdf
C29_Witness ==
    /\ jobs["j1"].status = "concluido"
    /\ jobs["j1"].layout_identified = "RELATORIO_ANALITICO_AUTORAL"
    /\ jobs["j1"].progress = 100
    /\ ContentOf(files, JsonName("j1")).records # << >>
    /\ jobs["j2"].status = "erro"
    /\ jobs["j2"].error_message = LayoutNaoIdentificado

\* the place of job j in the order of creation
CreatedAt(j) == CHOOSE k \in 1..Len(JobIds) : JobIds[k] = j

\* what a consolidated file of batch b holds is what the jobs of b that are
\* concluded with records have in their JSON files, oldest job first
ConsolidatedRight(b, fs) ==
    LET c == ContentOf(fs, ConsolidatedName(b))
    IN  /\ {c[k].job : k \in 1..Len(c)} = {j \in JobsOf(b) : ConcludedWithRows(j)}
        /\ \A k, l \in 1..Len(c) :
              k < l => CreatedAt(c[k].job) < CreatedAt(c[l].job)
        /\ \A k \in 1..Len(c) :
              /\ c[k].records = Len(ContentOf(fs, JsonName(c[k].job)).records)
              /\ c[k].records > 0
              /\ jobs[c[k].job].status # "erro"

\* C30: the step that writes the consolidated file of a batch writes the
\* records of exactly the jobs of the batch that are 'concluido' and have
\* records, in the order the jobs were created, and nothing of a job that
\* is 'erro'; a consolidated file that exists holds just that.
C30_ConsolidatedContent ==
    /\ [][\A b \in BatchIds : Generates(b) => ConsolidatedRight(b, files')]_vars
    /\ [](\A b \in BatchIds :
             Exists(files, ConsolidatedName(b)) => ConsolidatedRight(b, files))

\* the first job failed writing its workbook after its JSON file, with a
\* record, was written; the consolidated file holds the record of the
\* second job only
C30_Witness ==
    /\ Exists(files, ConsolidatedName("b1"))
    /\ jobs["j1"].status = "erro"
    /\ Exists(files, JsonName("j1"))
    /\ ContentOf(files, JsonName("j1")).records # << >>
    /\ jobs["j2"].batch_id = "b1"
    /\ ContentOf(files, ConsolidatedName("b1")) = << [job |-> "j2", records |-> 1] >>

(***************************************************************************)
(* The file name of the records                                            *)
(***************************************************************************)

\* C31: every record of the frame an extractor returns holds in
\* arquivo_origem the file name the extractor was called with.
C31_FilenameOnEveryRecord ==
    pc = "done" =>
        \A i \in 1..Len(result.records) :
            result.records[i].arquivo_origem = original_filename

(***************************************************************************)
(* The work headers of the authorial report                                *)
(***************************************************************************)

MaxWorkHeaderLen == 3

\* a work header with ISWC, one without, a simplified one with ISWC, one
\* without ISWC and without association, and a participant line
WorkHeaderCatalogue == {"obra", "obraB", "obraSimple", "obraNoAssoc", "part4"}

InitWorkHeaders ==
    \E d \in Documents(WorkHeaderCatalogue, MaxWorkHeaderLen) :
        ExtractorEntry("autoral", d, "RELATORIO_ANALITICO_AUTORAL")

SpecWorkHeaders == InitWorkHeaders /\ [][NextAutoral]_vars

\* code, title and ISWC printed on the work header lines
PrintedWorkHeader ==
    [obra |-> [codigo |-> "00012345", titulo |-> "MINHA OBRA",
               iswc |-> "T-123.456.789-0"],
     obraB |-> [codigo |-> "00054321", titulo |-> "OUTRA OBRA", iswc |-> NULL],
     obraSimple |-> [codigo |-> "00077777", titulo |-> "TERCEIRA",
                     iswc |-> "T-111.222.333-4"],
     obraNoAssoc |-> [codigo |-> "00088888", titulo |-> "QUARTA OBRA",
                      iswc |-> NULL]]

\* a step that reads one line of the current page of an authorial report
AutoralLineStep == pc = "autoral_lines" /\ line_idx' = line_idx + 1

\* C32: the step that reads a work header of any shape leaves the code, the
\* cleaned title and the ISWC of that header (null when it has none) as the
\* current ones and emits no row; the row of a participant line read
\* afterwards carries the current code, title and ISWC.
C32_WorkHeaderFields ==
    /\ [][(AutoralLineStep /\ CurrentName \in DOMAIN PrintedWorkHeader)
             => /\ current_obra_codigo' = PrintedWorkHeader[CurrentName].codigo
                /\ current_obra_titulo' = PrintedWorkHeader[CurrentName].titulo
                /\ current_isrc' = PrintedWorkHeader[CurrentName].iswc
                /\ rows' = rows]_vars
    /\ [][(AutoralLineStep /\ CurrentName = "part4")
             => /\ Len(rows') = Len(rows) + 1
                /\ Last(rows').obra_codigo = current_obra_codigo
                /\ Last(rows').obra_referencia = current_obra_titulo
                /\ Last(rows').isrc_iswc = current_isrc
                /\ current_obra_codigo' = current_obra_codigo
                /\ current_obra_titulo' = current_obra_titulo
                /\ current_isrc' = current_isrc]_vars

(***************************************************************************)
(* The recording headers of the connected-rights report                    *)
(***************************************************************************)

MaxRecordingLen == 3

\* a recording header the primary pattern matches, two that only the
\* fallback matches (with a status and without), a complement line, a
\* participant
RecordingCatalogue == {"grav", "gravNoNac", "gravPlain", "complemento", "cPart4"}

InitRecordings ==
    \E d \in Documents(RecordingCatalogue, MaxRecordingLen) :
        ExtractorEntry("conexo", d, "RELATORIO_ANALITICO_CONEXO")

SpecRecordings == InitRecordings /\ [][NextConexo]_vars

\* code, ISRC, status and title printed on the recording header lines
PrintedRecording ==
    [grav |-> [codigo |-> "00054321", isrc |-> "BR-ABC-12-12345",
               situacao |-> "LIBERADO", titulo |-> "MINHA GRAVACAO"],
     gravNoNac |-> [codigo |-> "00077777", isrc |-> "BR-RRR-22-33333",
                    situacao |-> "PENDENTE", titulo |-> "TERCEIRA FAIXA"],
     gravPlain |-> [codigo |-> "00066666", isrc |-> "BR-QQQ-11-22222",
                    situacao |-> NULL, titulo |-> "FAIXA BONUS"]]

\* a step that reads one line of the current page of a connected-rights report
ConexoLineStep == pc = "conexo_lines" /\ line_idx' = line_idx + 1

\* C33: the step that reads a recording header, whichever path matches it,
\* leaves the code, the ISRC, the title and the status of that header as the
\* current ones and the complement null, and emits no row; the row of a
\* participant line carries the current title, status and complement, so
\* none of an earlier recording.
C33_HeaderSupersedes ==
    /\ [][(ConexoLineStep /\ CurrentName \in DOMAIN PrintedRecording)
             => /\ current_obra_codigo' = PrintedRecording[CurrentName].codigo
                /\ current_isrc' = PrintedRecording[CurrentName].isrc
                /\ current_obra_titulo' = PrintedRecording[CurrentName].titulo
                /\ current_situacao' = PrintedRecording[CurrentName].situacao
                /\ current_complemento' = NULL
                /\ rows' = rows]_vars
    /\ [][(ConexoLineStep /\ CurrentName = "cPart4")
             => /\ Len(rows') = Len(rows) + 1
                /\ Last(rows').obra_codigo = current_obra_codigo
                /\ Last(rows').isrc_iswc = current_isrc
                /\ Last(rows').obra_referencia = current_obra_titulo
                /\ Last(rows').situacao = current_situacao
                /\ Last(rows').complemento_titulo = current_complemento]_vars

(***************************************************************************)
(* The complement lines of the connected-rights report                     *)
(***************************************************************************)

MaxComplementLen == 4

\* a recording header, two short lines of text, a column-header line, an
\* empty line, a participant line
ComplementCatalogue == {"grav", "complemento", "other", "gravColHdr", "blank", "cPart4"}

InitComplement ==
    \E d \in Documents(ComplementCatalogue, MaxComplementLen) :
        ExtractorEntry("conexo", d, "RELATORIO_ANALITICO_CONEXO")

SpecComplement == InitComplement /\ [][NextConexo]_vars

\* the text has at most five words, does not start with a digit and is not
\* a participant line
ShortText(line) ==
    /\ Len(split(line)) <= 5
    /\ (line = "" \/ Ch(line, 1) \notin Digit)
    /\ ~re_participante_conexo(line).ok

\* the text is not empty and holds none of the keywords of the lines the
\* extractor ignores
Printed(line) ==
    line # "" /\ \A kw \in ConexoFurnitureKeywords : ~Contains(line, kw)

\* the lines read so far that are recording headers
HeadersRead == {k \in 1..Len(trace) : NameAt(k) \in DOMAIN PrintedRecording}

\* the complement in force: the text of the last short line read after the
\* last recording header, null when there is none
ComplementInForce ==
    LET after == IF HeadersRead = {} THEN {}
                 ELSE {k \in (Max(HeadersRead) + 1)..Len(trace) :
                          ShortText(LineAt(k)) /\ Printed(LineAt(k))}
    IN  IF after = {} THEN NULL ELSE LineAt(Max(after))

\* C34 as stated: once a recording header was read, the step that reads a
\* line of at most five words that does not start with a digit and is not a
\* participant line makes the line the current complement and emits no row.
C34_ShortLineIsComplement ==
    [][(ConexoLineStep /\ HeadersRead # {} /\ ShortText(CurrentLine))
          => /\ current_complemento' = clean_text(CurrentLine)
             /\ rows' = rows]_vars

\* C34: once a recording header was read, the step that reads a line of at
\* most five words that does not start with a digit, is not a participant
\* line, is not empty and holds no keyword of the ignored lines makes the
\* line the current complement, emits no row and leaves the other fields;
\* the row of a participant line carries the last such line read since the
\* last recording header, null when there is none.
C34_PrintedShortLineIsComplement ==
    /\ [][(ConexoLineStep /\ HeadersRead # {} /\ ShortText(CurrentLine)
              /\ Printed(CurrentLine))
             => /\ current_complemento' = clean_text(CurrentLine)
                /\ rows' = rows
                /\ current_obra_codigo' = current_obra_codigo
                /\ current_obra_titulo' = current_obra_titulo
                /\ current_isrc' = current_isrc
                /\ current_situacao' = current_situacao]_vars
    /\ [][(ConexoLineStep /\ CurrentName = "cPart4")
             => /\ Len(rows') = Len(rows) + 1
                /\ Last(rows').complemento_titulo = ComplementInForce]_vars
    /\ [](current_complemento = ComplementInForce)

\* a complement line replaced by a second one before the participant line
C34_Witness ==
    /\ pc = "done"
    /\ doc = << << "grav", "complemento", "other", "cPart4" >> >>
    /\ Len(rows) = 1
    /\ rows[1].complemento_titulo = "SUBTOTAL"

(***************************************************************************)
(* The pending ISRC of the standard statement                              *)
(***************************************************************************)

MaxPendingLen == 4

\* a column header, a work header, a line that holds only a labelled code,
\* a data line and a chapter line (neither with a code of its own)
PendingCatalogue == {"colhdr", "headerA", "isrc", "data", "capitulo"}

InitPending ==
    \E d \in Documents(PendingCatalogue, MaxPendingLen) :
        ExtractorEntry("padrao", d, "DEMONSTRATIVO_TITULAR")

SpecPending == InitPending /\ [][NextPadrao]_vars

\* line k of the trace emitted a row
EmittedRow(k) == trace[k].nrows > (IF k = 1 THEN 0 ELSE trace[k - 1].nrows)

\* the lines read so far that emitted a row or were taken as a work header
PendingResets ==
    {k \in 1..Len(trace) : EmittedRow(k) \/ trace[k].branch \in HeaderBranches}

\* the code-bearing lines read outside the skip band since the last of them
CodeLinesSince ==
    {k \in 1..Len(trace) :
        /\ NameAt(k) \in DOMAIN IsrcLines
        /\ trace[k].branch = "isrc_only"
        /\ \A r \in PendingResets : r < k}

\* the code a code-bearing line left pending and no row has taken yet
PendingCode ==
    IF CodeLinesSince = {} THEN NULL
    ELSE IsrcLines[NameAt(Max(CodeLinesSince))].code

MaxPagesLen == 7

PagesCatalogue == {"colhdr", "headerA", "data"}

InitPages ==
    \E d \in Documents(PagesCatalogue, MaxPagesLen) :
        ExtractorEntry("padrao", d, "DEMONSTRATIVO_TITULAR")

SpecPages == InitPages /\ [][NextPadrao]_vars

\* page p of the document has a column-header line
HasColumnHeader(p) ==
    \E i \in 1..Len(doc[p]) : doc[p][i] \in ColumnHeaderNames

\* the column-header line of its page was read before the k-th entry
ColumnHeaderSeenBefore(k) ==
    \E h \in 1..(k - 1) :
        /\ trace[h].page = trace[k].page
        /\ NameAt(h) \in ColumnHeaderNames

\* C36: the step to the next page keeps the work code, the title and the
\* rows and enters skip mode; a line of a page without column-header line
\* emits no row and changes no state; every row comes from a line read
\* after the column-header line of its page and carries the code and title
\* of the last work header processed before it, on whichever page.
C36_AcrossPages ==
    /\ [][/\ (page_idx' # page_idx
                 => /\ skip_header'
                    /\ rows' = rows
                    /\ current_obra_codigo' = current_obra_codigo
                    /\ current_obra_titulo' = current_obra_titulo)
          /\ (LineStep /\ ~HasColumnHeader(page_idx)
                 => /\ rows' = rows
                    /\ ContextUnchanged
                    /\ skip_header /\ skip_header')]_vars
    /\ [](\A r \in 1..Len(rows) :
             /\ ColumnHeaderSeenBefore(EmittedAt(r))
             /\ LET h == LastHeaderBefore(EmittedAt(r))
                IN  IF h = 0
                    THEN rows[r].obra_codigo = NULL
                    ELSE /\ rows[r].obra_codigo = WorkHeaderFields[NameAt(h)].codigo
                         /\ rows[r].obra_referencia = WorkHeaderFields[NameAt(h)].titulo)

\* the header of page 1 is on the row of page 3; page 2, without
\* column-header line, gave no row
C36_Witness ==
    /\ pc = "done"
    /\ doc = << << "colhdr", "headerA" >>, << "data" >>, << "colhdr", "data" >> >>
    /\ trace[3].page = 2 /\ trace[3].branch = "skipped"
    /\ Len(rows) = 1
    /\ EmittedAt(1) = 5
    /\ rows[1].obra_codigo = "00012345"
    /\ rows[1].obra_referencia = "SOME WORK TITLE"

(***************************************************************************)
(* Lines that start with a long number in the standard statement           *)
(***************************************************************************)

MaxDigitLen == 4

\* a column header, three lines that start with five digits or more (a work
\* header, one with the shape of a data line, one with a furniture keyword
\* in its title), a participant line with a seven-digit code, a data line
DigitCatalogue == {"colhdr", "headerA", "headerData", "headerFurn", "cPart5", "data"}

InitDigits ==
    \E d \in Documents(DigitCatalogue, MaxDigitLen) :
        ExtractorEntry("padrao", d, "DEMONSTRATIVO_TITULAR")

SpecDigits == InitDigits /\ [][NextPadrao]_vars

\* ^\d{5,}\s+ and further text (the line is stripped)
DigitLead(line) ==
    /\ SkipClass(line, 1, Digit) >= 6
    /\ SkipClass(line, 1, Digit) < Len(line)
    /\ Ch(line, SkipClass(line, 1, Digit)) \in WS

\* the digits a line starts with
LeadingDigits(line) == SubSeq(line, 1, SkipClass(line, 1, Digit) - 1)

\* the line read is taken by the work-header branch of the primary pattern:
\* no row, the leading digits as the work code
TakenByPrimary ==
    /\ LinePatterns[CurrentLine].obra_match.ok
    /\ Last(trace').branch = "obra_header"
    /\ rows' = rows
    /\ current_obra_codigo' = LeadingDigits(CurrentLine)

MaxChapterLen == 4

ChapterCatalogue ==
    {"colhdr", "headerA", "isrc", "capitulo", "capPlain", "capIsrc", "capPeriod"}

InitChapter ==
    \E d \in Documents(ChapterCatalogue, MaxChapterLen) :
        ExtractorEntry("padrao", d, "DEMONSTRATIVO_TITULAR")

SpecChapter == InitChapter /\ [][NextPadrao]_vars

\* what is printed on the chapter lines: whether the remainder has the
\* amount / apportionment / count shape, its first token, whether the line
\* has a period in front of the amounts, the labelled code it holds
ChapterLines ==
    [capitulo |-> [shape |-> TRUE, token |-> "12", period |-> FALSE, code |-> NULL],
     capPlain |-> [shape |-> FALSE, token |-> "12", period |-> FALSE, code |-> NULL],
     capIsrc |-> [shape |-> FALSE, token |-> "12", period |-> FALSE,
                  code |-> "BR-ABC-12-12345"],
     capPeriod |-> [shape |-> TRUE, token |-> "12", period |-> TRUE, code |-> NULL]]

\* the line read gives one chapter row under the current work
ChapterRow ==
    /\ Len(rows') = Len(rows) + 1
    /\ SubSeq(rows', 1, Len(rows)) = rows
    /\ Last(rows').rubrica = "CAPITULO:" \o ChapterLines[CurrentName].token
    /\ Last(rows').periodo = NULL
    /\ Last(rows').obra_codigo = current_obra_codigo
    /\ Last(rows').obra_referencia = current_obra_titulo
    /\ current_obra_codigo' = current_obra_codigo
    /\ current_obra_titulo' = current_obra_titulo

\* the chapter rows of the result have no period
ChapterRecordsWithoutPeriod ==
    pc = "done" =>
        \A i \in 1..Len(result.records) :
            result.records[i]["rubrica"] = "CAPITULO:12" =>
                /\ result.records[i]["periodo_inicial"] = NULL
                /\ result.records[i]["periodo_final"] = NULL

\* C38 (as claimed): a chapter line that reaches the matching stage gives
\* one chapter row when its remainder has the shape, and otherwise gives no
\* row and changes no state.
C38_ChapterLine ==
    [][(LineStep /\ ReachesMatching /\ CurrentName \in DOMAIN ChapterLines)
          => IF ChapterLines[CurrentName].shape
             THEN ChapterRow
             ELSE /\ rows' = rows
                  /\ ContextUnchanged
                  /\ skip_header' = skip_header]_vars

\* C38 (amended): a chapter line that reaches the matching stage and has no
\* period in front of its amounts gives one chapter row (rubrica
\* "CAPITULO:" and the first token, null period, current code and title)
\* when its remainder has the shape; otherwise it gives no row and changes
\* nothing but the pending ISRC, which a code printed on it sets.
C38_ChapterLineWithoutPeriod ==
    /\ [][(/\ LineStep /\ ReachesMatching
           /\ CurrentName \in DOMAIN ChapterLines
           /\ ~ChapterLines[CurrentName].period)
             => IF ChapterLines[CurrentName].shape
                THEN ChapterRow
                ELSE /\ rows' = rows
                     /\ current_obra_codigo' = current_obra_codigo
                     /\ current_obra_titulo' = current_obra_titulo
                     /\ skip_header' = skip_header
                     /\ current_isrc' =
                           IF ChapterLines[CurrentName].code # NULL
                           THEN ChapterLines[CurrentName].code
                           ELSE current_isrc]_vars
    /\ []ChapterRecordsWithoutPeriod

\* a chapter line without values gave nothing, the chapter line with values
\* after it one row under the work header
C38_Witness ==
    /\ pc = "done"
    /\ doc = << << "colhdr", "headerA", "capPlain", "capitulo" >> >>
    /\ Len(result.records) = 1
    /\ result.records[1]["rubrica"] = "CAPITULO:12"
    /\ result.records[1]["obra_codigo"] = "00012345"
    /\ result.records[1]["obra_referencia"] = "SOME WORK TITLE"
    /\ result.records[1]["periodo_inicial"] = NULL

(***************************************************************************)
(* The signature table and the dispatch table                              *)
(***************************************************************************)

MaxDispatchLen == 3

\* first pages for each of the six layouts, and for none
DispatchCatalogue ==
    {"sigAutoral", "sigConexo", "sigDigitais", "kwTitular", "kwExecucao",
     "kwPrescritos", "kwPrescritiveis", "other"}

InitDispatch ==
    \E d \in Documents(DispatchCatalogue, MaxDispatchLen) :
        ExtractorEntry("extract_pdf", d, NULL)

SpecDispatch == InitDispatch /\ [][NextExtractPdf]_vars

\* the names identify_layout can return
LayoutNames == {LAYOUT_SIGNATURES[i].name : i \in 1..Len(LAYOUT_SIGNATURES)}

\* C39: every name of the signature table is a key of the dispatch table;
\* the layout extract_pdf identifies is one of these names, and the
\* extractor-missing error is never raised.
C39_EveryLayoutDispatched ==
    /\ LayoutNames \subseteq DOMAIN EXTRACTOR_MAP
    /\ (pc # "extract_pdf" /\ layout # NULL) =>
           /\ layout \in LayoutNames
           /\ extractor_for(layout) # NULL
    /\ error # ExtratorNaoImplementado

\* a first page with the two keywords of the prescribable-rights
\* distribution was identified and its extractor has returned
C39_Witness ==
    /\ pc = "done"
    /\ layout = "DISTRIBUICAO_PRESCRITIVEIS"
    /\ tipo = "DISTRIBUICAO_PRESCRITIVEIS"
    /\ error = NULL

(***************************************************************************)
(* What extract_pdf returns                                                *)
(***************************************************************************)

MaxReturnedLen == 4

\* first-page lines of an authorial report, a connected-rights report and a
\* digital-services statement; lines that give rows that differ
ReturnedCatalogue ==
    {"sigAutoral", "sigConexo", "sigDigitais", "colhdr", "data", "dataPadded",
     "part4", "cPart4"}

InitReturned ==
    \E d \in Documents(ReturnedCatalogue, MaxReturnedLen) :
        ExtractorEntry("extract_pdf", d, NULL)

SpecReturned == InitReturned /\ [][NextExtractPdf]_vars

\* C40: when extract_pdf has returned, the frame has one record for each
\* row the extractor emitted, the i-th record holding the values of the
\* i-th row, and every record has the returned layout name as
\* tipo_extracao and as documento_origem.
C40_ReturnedRecords ==
    (pc = "done" /\ error = NULL) =>
        /\ Len(result.records) = Len(rows)
        /\ \A i \in 1..Len(rows) :
              /\ result.records[i]["tipo_extracao"] = layout
              /\ result.records[i]["documento_origem"] = layout
              /\ \A k \in DOMAIN rows[i] : result.records[i][k] = rows[i][k]

\* a digital-services statement with two data lines: two records, in the
\* order of the lines, under the name of the layout
C40_Witness ==
    /\ pc = "done"
    /\ doc = << << "sigDigitais", "colhdr", "data", "dataPadded" >> >>
    /\ layout = "DEMONSTRATIVO_SERVICOS_DIGITAIS"
    /\ Len(result.records) = 2
    /\ result.records[1]["artista_gravacao"] = "JOHN"
    /\ result.records[2]["artista_gravacao"] = "JANE"
    /\ result.records[2]["documento_origem"] = "DEMONSTRATIVO_SERVICOS_DIGITAIS"

====
